---------------------------- MODULE Spec2Model ----------------------------
(***************************************************************************)
(* Model of the Fleaflicker platform adapter (map_data_to_base) and of the *)
(* transactions & lineup awards of ReportData.__init__.                    *)
(*                                                                         *)
(* The specifications of this module, one per slice of the program:        *)
(*   Spec        weekly medians and the cumulative median records          *)
(*   SpecTx      week windows and the transaction / trade normalizer       *)
(*   SpecAwards  the report week's transactions awards                     *)
(*   SpecScrape  the fields scraped from the league's scores and rules     *)
(*   SpecCache   the per-team transactions loop, offline and online        *)
(*   SpecZ       the z-score table of ReportData                           *)
(*   SpecFeed    the paging of the per-team transactions feeds             *)
(*   SpecPaging  the paging of the league activity and the trades          *)
(*   SpecFA      the free-agent fetch of one week                          *)
(*   SpecRosters the weeks the roster mapping and the standings read       *)
(*   SpecRest    the candidates of Best of the Rest                        *)
(* Every variable of a slice keeps its initial value in the others.        *)
(*                                                                         *)
(* Points and scores are integers counting hundredths of a point, the      *)
(* resolution the platform reports; times are integer epoch ticks.         *)
(***************************************************************************)
EXTENDS Integers, Sequences, FiniteSets, TLC

VARIABLES
    pc,                             \* position in the procedure of the specification
    wk,                             \* loop variable of the week loops
    week_for_report,                \* self.league.week_for_report
    matchups_by_week,               \* week -> scoreboard payload fetched for it
    median_score_by_week,           \* week -> median (or None), once computed
    league_median_records_by_team,  \* team -> cumulative median record
    teams_by_week,                  \* week -> team -> Team snapshot
    current_median_standings,       \* self.league.current_median_standings (team ids)
    week_counter,                   \* ReportData: the week the report data is built for
    players,                        \* ReportData: player -> roster state in the report week
    events,                         \* ReportData: transactions_by_week[week_counter]
    fa_candidates,                  \* ReportData: fa_candidates
    drop_candidates,                \* ReportData: drop_candidates
    drop_idx,                       \* ReportData: position of the loop over the drop events
    awards,                         \* ReportData: the transactions_awards_* attributes
    week_start_ts,                  \* week -> start of its window, for the weeks that have one
    transactions_by_week,           \* self.league.transactions_by_week
    activity,                       \* loop variable of the league activity loop
    week_ord,                       \* week resolved for the current activity item
    tr,                             \* loop variable of the completed trades loop
    team_received,                  \* (team_id, rec_ids, week_guess) of the current trade
    tm,                             \* loop variable of the per-team transactions loop
    it,                             \* loop variable of the per-team items loop
    wk_ord,                         \* week resolved for the current per-team item
    items_left,                     \* items the three feeds have yet to deliver
    logged,                         \* what the last iteration wrote to the log
    week_text,                      \* scores page: what follows "This Week"
    rules_page,                     \* rules page: its dt/dd elements
    season,                         \* self.league.season
    scraped_current_week,           \* scraped_current_week
    num_playoff_slots,              \* self.league.num_playoff_slots
    num_regular_season_weeks,       \* self.league.num_regular_season_weeks
    offline,                        \* self.league.offline
    save_data,                      \* self.league.save_data
    cache,                          \* team -> week -> the file team_<id>_transactions.json
    requests,                       \* count of the teams whose feed was queried
    z_score_results,                \* ReportData: team -> z-score, <<>> standing for None
    data_for_z_scores,              \* ReportData: self.data_for_z_scores
    feed,                           \* team -> the pages of its transactions feed, newest first
    result_offset,                  \* result_offset of the per-team paging loop
    fails,                          \* the request (team, page) that raises, if any
    team_events,                    \* team_events_by_week of the team being paged
    pages,                          \* cursor -> the page the listing returns for it
    activity_items,                 \* activity_items (251)
    trade_items,                    \* trades (386)
    urls,                           \* the result offsets requested so far, in order
    fa_cache,                       \* the file week_<w>/free_agents.json
    use_camelcase_params,           \* use_camelcase_params (989)
    using_fallback,                 \* using_fallback (988)
    total_found,                    \* total_found (986)
    free_agents,                    \* free_agents: the ids that key the mapping
    attempts,                       \* the requests made so far and how each ended
    roster_week,                    \* loop variable of the roster mapping loop (802)
    players_by_week,                \* self.league.players_by_week
    current_standings,              \* self.league.current_standings (team ids)
    free_agents_by_week,            \* week -> the keys of league.free_agents_by_week[week]
    best_of_rest_bool,              \* settings.report_settings.best_of_rest_bool
    filtered_fas                    \* ReportData: the keys of the players of filtered_fas

medVars == <<pc, wk, week_for_report, matchups_by_week, median_score_by_week,
             league_median_records_by_team, teams_by_week,
                   current_median_standings>>

awardVars == <<week_counter, players, events, fa_candidates, drop_candidates, drop_idx, awards>>

txVars == <<week_start_ts, transactions_by_week, activity, week_ord, tr, team_received,
            tm, it, wk_ord, items_left, logged>>

scrapeVars == <<week_text, rules_page, season, scraped_current_week, num_playoff_slots,
                num_regular_season_weeks>>

\* The variables of the slices that follow the first three.
cacheVars == <<offline, save_data, cache, requests>>

zVars == <<z_score_results, data_for_z_scores>>

feedVars == <<feed, result_offset, fails, team_events>>

\* The variables of the slices that follow the z-score table.
pagingVars == <<pages, activity_items, trade_items, urls>>

\* The variables of the free-agent fetch.
faVars == <<fa_cache, use_camelcase_params, using_fallback, total_found, free_agents,
            attempts>>

\* The variables of the roster mapping and the standings.
rosterVars == <<roster_week, players_by_week, current_standings>>

\* The variables of Best of the Rest.
restVars == <<free_agents_by_week, best_of_rest_bool, filtered_fas>>

lastVars == <<faVars, rosterVars, restVars>>

laterVars == <<feedVars, pagingVars, lastVars>>

auxVars == <<scrapeVars, cacheVars, zVars, laterVars>>

vars == <<medVars, awardVars, txVars, auxVars>>

medVarsButPc == <<wk, week_for_report, matchups_by_week, median_score_by_week,
                  league_median_records_by_team, teams_by_week, current_median_standings>>

\* Python's None.  Scores, medians, weeks and times are never negative, so a
\* negative integer stands for it.
None == 0 - 1

(***************************************************************************)
(* Bounds and inputs of the median slice                                   *)
(***************************************************************************)
start_week == 1
NumRegularSeasonWeeks == 2
MaxScore == 2

Weeks == start_week..NumRegularSeasonWeeks

\* The league's teams and the two games every scoreboard lists.
Teams == 1..4
Games == <<[home |-> 1, away |-> 2], [home |-> 3, away |-> 4]>>

\* Python dict.get(key) with the default None, and d[key] = value.
Get(d, k) == IF k \in DOMAIN d THEN d[k] ELSE None
Put(d, k, v) == (k :> v) @@ d

\* Python truthiness of a number or None.
Truthy(x) == x # None /\ x # 0

\* A side's "<key>Score" object: score.value, value and formatted, each
\* possibly missing (None).  formatted is text; it is modelled by the number
\* its text denotes, and by NotANumber when the text denotes none.
NotANumber == 0 - 2
ScoreObj(sv, v, f) == [score_value |-> sv, value |-> v, formatted |-> f]

\* The shapes of score object a side of the first game is drawn from.
SideShapes ==
    {ScoreObj(None, None, None)}
      \cup {ScoreObj(x, None, None) : x \in 0..MaxScore}
      \cup {ScoreObj(None, 1, None)}

\* The second game is either played with settled scores or not scored yet.
SettledGame == {<<ScoreObj(1, None, None), ScoreObj(2, None, None)>>,
                <<ScoreObj(None, None, None), ScoreObj(None, None, None)>>}

\* A scoreboard: team -> score object of the side the team plays.
Scoreboards ==
    {[t \in Teams |-> CASE t = 1 -> a
                        [] t = 2 -> b
                        [] t = 3 -> g[1]
                        [] OTHER -> g[2]] :
        a \in SideShapes, b \in SideShapes, g \in SettledGame}

(***************************************************************************)
(* The values the variables of a slice keep while another slice runs       *)
(***************************************************************************)
NoAwards ==
    [worst_startsit |-> <<>>, best_fa_pickups |-> <<>>, worst_fa_pickups |-> <<>>,
     best_fa_pickups_hm |-> <<>>, worst_fa_pickups_hm |-> <<>>,
     best_drops |-> <<>>, worst_drops |-> <<>>,
     best_trades |-> <<>>, worst_trades |-> <<>>]

NoEvents == [adds |-> <<>>, claims |-> <<>>, drops |-> <<>>, trades |-> <<>>]

AwardsIdle ==
    /\ week_counter = start_week
    /\ players = <<>>
    /\ events = NoEvents
    /\ fa_candidates = <<>>
    /\ drop_candidates = <<>>
    /\ drop_idx = 0
    /\ awards = NoAwards

MedianIdle ==
    /\ wk = start_week
    /\ matchups_by_week = <<>>
    /\ median_score_by_week = <<>>
    /\ league_median_records_by_team = <<>>
    /\ teams_by_week = <<>>
    /\ current_median_standings = <<>>

ScrapeIdle ==
    /\ week_text = None
    /\ rules_page = <<>>
    /\ season = 0
    /\ scraped_current_week = None
    /\ num_playoff_slots = None
    /\ num_regular_season_weeks = None

CacheIdle ==
    /\ offline = FALSE
    /\ save_data = FALSE
    /\ cache = <<>>
    /\ requests = 0

ZIdle ==
    /\ z_score_results = <<>>
    /\ data_for_z_scores = <<>>

FeedIdle ==
    /\ feed = <<>>
    /\ result_offset = None
    /\ fails = <<>>
    /\ team_events = <<>>

PagingIdle ==
    /\ pages = <<>>
    /\ activity_items = <<>>
    /\ trade_items = <<>>
    /\ urls = <<>>

FAIdle ==
    /\ fa_cache = <<>>
    /\ use_camelcase_params = FALSE
    /\ using_fallback = FALSE
    /\ total_found = 0
    /\ free_agents = {}
    /\ attempts = <<>>

RosterIdle ==
    /\ roster_week = 1
    /\ players_by_week = <<>>
    /\ current_standings = <<>>

RestIdle ==
    /\ free_agents_by_week = <<>>
    /\ best_of_rest_bool = FALSE
    /\ filtered_fas = {}

LastIdle == FAIdle /\ RosterIdle /\ RestIdle

LaterIdle == FeedIdle /\ PagingIdle /\ LastIdle

AuxIdle == ScrapeIdle /\ CacheIdle /\ ZIdle /\ LaterIdle

TxIdle ==
    /\ week_start_ts = <<>>
    /\ transactions_by_week = <<>>
    /\ activity = <<>>
    /\ week_ord = None
    /\ tr = <<>>
    /\ team_received = <<>>
    /\ tm = 0
    /\ it = <<>>
    /\ wk_ord = None
    /\ items_left = 0
    /\ logged = <<>>

(***************************************************************************)
(* Median computation (fleaflicker.py 200-232)                             *)
(***************************************************************************)
\* float(parsed), None when parsed is None or text that is no number.
ToFloat(x) == IF x = None \/ x = NotANumber THEN None ELSE x

\* parsed = score.value or value or formatted: Python's "or" skips every
\* falsy operand (None and 0) and yields the last one when all are falsy.
Parsed(obj) ==
    IF Truthy(obj.score_value) THEN obj.score_value
    ELSE IF Truthy(obj.value) THEN obj.value
    ELSE obj.formatted

\* score_val of one side: float(parsed) if parsed is not None else None.
ScoreVal(obj) == ToFloat(Parsed(obj))

\* The sides of a scoreboard in the order the loops visit them.
RECURSIVE SidesOf(_)
SidesOf(games) ==
    IF games = <<>> THEN <<>>
    ELSE <<Head(games).home, Head(games).away>> \o SidesOf(Tail(games))

\* scores: the score_val of every side that has one, in visiting order.
RECURSIVE CollectScores(_, _)
CollectScores(board, sides) ==
    IF sides = <<>> THEN <<>>
    ELSE LET v == ScoreVal(board[Head(sides)])
         IN  (IF v # None THEN <<v>> ELSE <<>>) \o CollectScores(board, Tail(sides))

\* sorted(data)
RECURSIVE Insert(_, _)
Insert(x, s) ==
    IF s = <<>> THEN <<x>>
    ELSE IF x <= Head(s) THEN <<x>> \o s
    ELSE <<Head(s)>> \o Insert(x, Tail(s))

RECURSIVE Sorted(_)
Sorted(s) == IF s = <<>> THEN <<>> ELSE Insert(Head(s), Sorted(Tail(s)))

\* statistics.median(data), doubled so that it stays an integer: the middle
\* value for an odd count, the mean of the two middle values for an even one.
Median2(data) ==
    LET d == Sorted(data)
        n == Len(d)
        i == n \div 2
    IN  IF n % 2 = 1 THEN 2 * d[i + 1] ELSE d[i] + d[i + 1]

\* round(x, 2) of the float x = m2 / 2 hundredths: exact when x is a whole
\* number of hundredths; a half hundredth rounds to either neighbour, as the
\* binary float nearest to x lies below or above the decimal tie.
Round2(m2) == IF m2 % 2 = 0 THEN {m2 \div 2} ELSE {(m2 - 1) \div 2, (m2 + 1) \div 2}

\* Mutant of WeeklyMedians: a week without scores defaults to a median of 0.
WeeklyMedians_ZeroDefault(scores) ==
    IF scores # <<>> THEN Round2(Median2(scores)) ELSE {0}

\* weekly_median = round(median(scores), 2) if scores else None
WeeklyMedians(scores) == IF scores # <<>> THEN Round2(Median2(scores)) ELSE {None}

Min(a, b) == IF a <= b THEN a ELSE b

(***************************************************************************)
(* Cumulative median records (fleaflicker.py 663-800)                      *)
(***************************************************************************)
\* BaseRecord(team_id=..., team_name=...): a record with nothing counted.
NewRecord == [wins |-> 0, losses |-> 0, ties |-> 0, points_for |-> 0, points_against |-> 0]

\* BaseRecord.add_points_for, add_points_against, add_win, add_loss, add_tie.
add_points_for(r, x) == [r EXCEPT !.points_for = @ + x]
add_points_against(r, x) == [r EXCEPT !.points_against = @ + x]
add_win(r) == [r EXCEPT !.wins = @ + 1]
add_loss(r) == [r EXCEPT !.losses = @ + 1]
add_tie(r) == [r EXCEPT !.ties = @ + 1]

\* base_team.points = float(matchup.get(key + "Score", {}).get("score", {}).get("value", 0))
TeamPoints(obj) == IF obj.score_value = None THEN 0 ELSE obj.score_value

\* The record a team carries into a week: the one kept for it, created when
\* there is none yet.
MedianRecordOf(records, t) == IF t \in DOMAIN records THEN records[t] ELSE NewRecord

\* Mutant of FoldMedian: a score equal to the median is credited as a win,
\* and points-against accumulates instead of being replaced.
FoldMedian_TieAsWin(r, points, week_median) ==
    LET r1 == add_points_for(r, points - week_median)
        r2 == add_points_against(r1, week_median)
    IN  IF points >= week_median THEN add_win(r2) ELSE add_loss(r2)

\* The fold of one week into a team's record when the week has a median.
FoldMedian(r, points, week_median) ==
    LET r1 == add_points_for(r, points - week_median)
        r2 == add_points_against(r1, (r1.points_against * (0 - 1)) + week_median)
    IN  IF points > week_median THEN add_win(r2)
        ELSE IF points < week_median THEN add_loss(r2)
        ELSE add_tie(r2)

\* The record of a team after one of its sides of a week is mapped.
MappedRecord(r, points, week_median) ==
    IF week_median # None THEN FoldMedian(r, points, week_median) ELSE r

(***************************************************************************)
(* The median slice as a state machine                                     *)
(***************************************************************************)
InitMedian ==
    /\ pc = "scoreboard"
    /\ wk = start_week
    /\ week_for_report \in Weeks
    /\ matchups_by_week = <<>>
    /\ median_score_by_week = <<>>
    /\ league_median_records_by_team = <<>>
    /\ teams_by_week = <<>>
    /\ current_median_standings = <<>>
    /\ AwardsIdle
    /\ TxIdle
    /\ AuxIdle

\* One iteration of the scoreboard loop (156-178): the platform answers with
\* some scoreboard for the week.
FetchScoreboard ==
    /\ pc = "scoreboard"
    /\ \E board \in Scoreboards :
          matchups_by_week' = Put(matchups_by_week, wk, board)
    /\ IF wk < NumRegularSeasonWeeks
         THEN wk' = wk + 1 /\ pc' = pc
         ELSE wk' = start_week /\ pc' = "median"
    /\ UNCHANGED <<week_for_report, median_score_by_week,
                   league_median_records_by_team, teams_by_week,
                   current_median_standings>>
    /\ UNCHANGED awardVars
    /\ UNCHANGED txVars
    /\ UNCHANGED auxVars

\* One iteration of the median loop (200-232).
ComputeMedian ==
    /\ pc = "median"
    /\ LET scores == CollectScores(matchups_by_week[wk], SidesOf(Games))
       IN  \E weekly_median \in WeeklyMedians(scores) :
              median_score_by_week' = Put(median_score_by_week, wk, weekly_median)
    /\ IF wk < Min(week_for_report, NumRegularSeasonWeeks)
         THEN wk' = wk + 1 /\ pc' = pc
         ELSE wk' = start_week /\ pc' = "map"
    /\ UNCHANGED <<week_for_report, matchups_by_week,
                   league_median_records_by_team, teams_by_week,
                   current_median_standings>>
    /\ UNCHANGED awardVars
    /\ UNCHANGED txVars
    /\ UNCHANGED auxVars

\* One iteration of the matchup mapping loop (663-800): every side of every
\* game of the week becomes a Team snapshot and is folded into its record.
MapWeek ==
    /\ pc = "map"
    /\ LET board == matchups_by_week[wk]
           week_median == Get(median_score_by_week, wk)
           sides == {SidesOf(Games)[i] : i \in 1..Len(SidesOf(Games))}
       IN  /\ league_median_records_by_team' =
                 [t \in DOMAIN league_median_records_by_team \cup sides |->
                     IF t \in sides
                       THEN MappedRecord(MedianRecordOf(league_median_records_by_team, t),
                                         TeamPoints(board[t]), week_median)
                       ELSE league_median_records_by_team[t]]
           /\ teams_by_week' =
                 Put(teams_by_week, wk,
                     [t \in sides |->
                         [points |-> TeamPoints(board[t]),
                          has_median_record |-> week_median # None]])
    /\ IF wk < NumRegularSeasonWeeks
         THEN wk' = wk + 1 /\ pc' = pc
         ELSE wk' = wk /\ pc' = "mapped"
    /\ UNCHANGED <<week_for_report, matchups_by_week, median_score_by_week,
                   current_median_standings>>
    /\ UNCHANGED awardVars
    /\ UNCHANGED txVars
    /\ UNCHANGED auxVars

\* The losses count upwards in the key.
MedianKey_LossesAscending(r) == <<r.wins, r.losses, r.ties, r.points_for>>

\* The key current_median_standings is sorted by (926-931), of the record r.
MedianKey(r) == <<r.wins, 0 - r.losses, r.ties, r.points_for>>

\* Python's order of two key tuples: a < b.
TupleLess(a, b) ==
    \E i \in 1..Len(a) : a[i] < b[i] /\ \A j \in 1..(i - 1) : a[j] = b[j]

\* A report week without median shows a record with nothing counted.
current_median_record_NoCarry(snapshots, records, w, t) ==
    IF Get(median_score_by_week, w) # None THEN records[t] ELSE NewRecord

\* x.current_median_record of the Team snapshot of team t in week w: the
\* record kept for the team once one has been attached, else the empty
\* record a Team is built with.
current_median_record(snapshots, records, w, t) ==
    IF snapshots[w][t].has_median_record THEN records[t] ELSE NewRecord

\* sorted(..., key=..., reverse=True) of the team ids in q: descending by key,
\* teams with equal keys in the order they have in q.  x is put into the
\* sorted q behind every team whose key is not lower.
RECURSIVE InsertByKeyDesc(_, _, _)
InsertByKeyDesc(x, q, key) ==
    IF q = <<>> THEN <<x>>
    ELSE IF TupleLess(key[Head(q)], key[x]) THEN <<x>> \o q
    ELSE <<Head(q)>> \o InsertByKeyDesc(x, Tail(q), key)

RECURSIVE SortedByKeyDesc(_, _, _)
SortedByKeyDesc(q, acc, key) ==
    IF q = <<>> THEN acc
    ELSE SortedByKeyDesc(Tail(q), InsertByKeyDesc(Head(q), acc, key), key)

\* The end of map_data_to_base (912-933): every team of the report week that
\* has a cumulative median record gets it attached, and the report week's
\* teams are ranked by their median records.
RankMedianStandings ==
    /\ pc = "mapped"
    /\ LET attached ==
              [teams_by_week EXCEPT ![week_for_report] =
                  [t \in DOMAIN @ |->
                      IF t \in DOMAIN league_median_records_by_team
                        THEN [@[t] EXCEPT !.has_median_record = TRUE]
                        ELSE @[t]]]
           key == [t \in DOMAIN attached[week_for_report] |->
                      MedianKey(current_median_record(attached, league_median_records_by_team,
                                                      week_for_report, t))]
       IN  /\ teams_by_week' = attached
           /\ current_median_standings' = SortedByKeyDesc(SidesOf(Games), <<>>, key)
    /\ pc' = "populated"
    /\ UNCHANGED <<wk, week_for_report, matchups_by_week, median_score_by_week,
                   league_median_records_by_team>>
    /\ UNCHANGED awardVars
    /\ UNCHANGED txVars
    /\ UNCHANGED auxVars

NextMedian == FetchScoreboard \/ ComputeMedian \/ MapWeek \/ RankMedianStandings

Init == InitMedian
Next == NextMedian
Spec == Init /\ [][Next]_vars

(***************************************************************************)
(* Claims about the median slice                                           *)
(***************************************************************************)
\* The score a side's payload carries, whatever its value: the first of
\* score.value, value and formatted that is present.
SideScore(obj) ==
    IF obj.score_value # None THEN obj.score_value
    ELSE IF obj.value # None THEN obj.value
    ELSE ToFloat(obj.formatted)

RECURSIVE AllScores(_, _)
AllScores(board, sides) ==
    IF sides = <<>> THEN <<>>
    ELSE (IF SideScore(board[Head(sides)]) # None
            THEN <<SideScore(board[Head(sides)])>> ELSE <<>>)
         \o AllScores(board, Tail(sides))

\* C1: in every week whose scoreboard has a side with a score, the week's
\* median is the statistical median, rounded to 2 decimals, of the scores of
\* every home and away side, a score of 0 included.
C1_MedianOfEverySide ==
    \A w \in DOMAIN median_score_by_week :
        LET every == AllScores(matchups_by_week[w], SidesOf(Games))
        IN  every # <<>> =>
               /\ median_score_by_week[w] # None
               /\ median_score_by_week[w] \in Round2(Median2(every))

\* The weeks mapped so far in which team t played and that have a median.
FoldedWeeks(t) ==
    {w \in DOMAIN teams_by_week :
        t \in DOMAIN teams_by_week[w] /\ Get(median_score_by_week, w) # None}

RECURSIVE SumMargins(_, _)
SumMargins(t, W) ==
    IF W = {} THEN 0
    ELSE LET w == CHOOSE x \in W : TRUE
         IN  (teams_by_week[w][t].points - median_score_by_week[w])
               + SumMargins(t, W \ {w})

LastOf(W) == CHOOSE w \in W : \A x \in W : x <= w

\* C2: with the weeks mapped in ascending order, a team's record counts as
\* wins, losses and ties the folded weeks with s > m, s < m and s = m, its
\* points-for is the sum of s - m over them and its points-against is the
\* median of the last of them.
C2_RecordIsFold ==
    \A t \in DOMAIN league_median_records_by_team :
        LET r == league_median_records_by_team[t]
            W == FoldedWeeks(t)
            s(w) == teams_by_week[w][t].points
            m(w) == median_score_by_week[w]
        IN  /\ r.wins = Cardinality({w \in W : s(w) > m(w)})
            /\ r.losses = Cardinality({w \in W : s(w) < m(w)})
            /\ r.ties = Cardinality({w \in W : s(w) = m(w)})
            /\ r.wins + r.losses + r.ties = Cardinality(W)
            /\ r.points_for = SumMargins(t, W)
            /\ W # {} => r.points_against = m(LastOf(W))

\* A team has won one folded week and lost another, the two medians differ.
C2_Witness ==
    /\ pc = "mapped"
    /\ \E t \in DOMAIN league_median_records_by_team :
          /\ league_median_records_by_team[t].wins = 1
          /\ league_median_records_by_team[t].losses = 1
    /\ \E w1, w2 \in DOMAIN median_score_by_week :
          /\ median_score_by_week[w1] # None
          /\ median_score_by_week[w2] # None
          /\ median_score_by_week[w1] # median_score_by_week[w2]

\* C3: a week in which no score could be parsed has the median None (never
\* 0), and mapping it leaves every team's record as it was (a team mapped
\* for the first time gets a record with nothing counted).
C3_NoMedianNoFold ==
    [][(pc = "map" /\ wk \in DOMAIN median_score_by_week
          /\ CollectScores(matchups_by_week[wk], SidesOf(Games)) = <<>>)
        => /\ median_score_by_week[wk] = None
           /\ \A t \in DOMAIN league_median_records_by_team' :
                 league_median_records_by_team'[t]
                   = MedianRecordOf(league_median_records_by_team, t)]_vars

\* The median record the report week's Team snapshot of team t carries.
ReportRecord(t) ==
    current_median_record(teams_by_week, league_median_records_by_team, week_for_report, t)

ReportTeams == DOMAIN teams_by_week[week_for_report]

\* C11: after populate every team of the report week carries, on its report
\* week snapshot, its cumulative median record over all folded weeks, also
\* when the report week has no median; and current_median_standings lists
\* every team of the report week once, ordered by these records.
C11_ReportWeekCarriesRecord ==
    pc = "populated" =>
       /\ \A t \in ReportTeams :
             LET r == ReportRecord(t)
                 W == FoldedWeeks(t)
                 s(w) == teams_by_week[w][t].points
                 m(w) == median_score_by_week[w]
             IN  /\ teams_by_week[week_for_report][t].has_median_record
                 /\ r.wins = Cardinality({w \in W : s(w) > m(w)})
                 /\ r.losses = Cardinality({w \in W : s(w) < m(w)})
                 /\ r.ties = Cardinality({w \in W : s(w) = m(w)})
                 /\ r.points_for = SumMargins(t, W)
       /\ Len(current_median_standings) = Cardinality(ReportTeams)
       /\ {current_median_standings[i] : i \in 1..Len(current_median_standings)} = ReportTeams
       /\ \A i \in 1..(Len(current_median_standings) - 1) :
             ~TupleLess(MedianKey(league_median_records_by_team[current_median_standings[i]]),
                        MedianKey(league_median_records_by_team[current_median_standings[i + 1]]))

\* The report week has no median, and a team that won an earlier week
\* carries that win on its report week snapshot.
C11_Witness ==
    /\ pc = "populated"
    /\ median_score_by_week[week_for_report] = None
    /\ \E t \in ReportTeams :
          /\ teams_by_week[week_for_report][t].has_median_record
          /\ ReportRecord(t).wins = 1

\* C12: for every two adjacent teams a before b of current_median_standings,
\* a has more median wins, or equal wins and fewer losses, or equal wins and
\* losses and more ties, or all three equal and points-for not lower.
C12_StandingsDescending ==
    pc = "populated" =>
       \A i \in 1..(Len(current_median_standings) - 1) :
          LET a == ReportRecord(current_median_standings[i])
              b == ReportRecord(current_median_standings[i + 1])
          IN  \/ a.wins > b.wins
              \/ a.wins = b.wins /\ a.losses < b.losses
              \/ a.wins = b.wins /\ a.losses = b.losses /\ a.ties > b.ties
              \/ a.wins = b.wins /\ a.losses = b.losses /\ a.ties = b.ties
                    /\ a.points_for >= b.points_for

\* Every tiebreak decides some adjacent pair: one pair is ordered by wins,
\* one by losses at equal wins, one by points-for at equal counts.
C12_Witness ==
    /\ pc = "populated"
    /\ \E i, j, k \in 1..(Len(current_median_standings) - 1) :
          LET a(n) == ReportRecord(current_median_standings[n])
          IN  /\ a(i).wins > a(i + 1).wins
              /\ a(j).wins = a(j + 1).wins /\ a(j).losses < a(j + 1).losses
              /\ a(k).wins = a(k + 1).wins /\ a(k).losses = a(k + 1).losses
                    /\ a(k).ties = a(k + 1).ties /\ a(k).points_for > a(k + 1).points_for

\* A week without a parsed score has been mapped after a week that credited a win.
C3_Witness ==
    /\ pc = "mapped"
    /\ wk \in DOMAIN median_score_by_week
    /\ CollectScores(matchups_by_week[wk], SidesOf(Games)) = <<>>
    /\ \E t \in DOMAIN league_median_records_by_team :
          league_median_records_by_team[t].wins = 1

(***************************************************************************)
(* Transactions & lineup awards (report/data.py 307-596)                   *)
(***************************************************************************)
MaxAdds == 2

\* The players of the report week and the team each belongs to when rostered.
AwardTeams == {1, 2}
AwardPlayers == 1..4
OwnerOf(p) == IF p <= 2 THEN 1 ELSE 2
PointValues == {1, 2}
bench_positions == {"BN", "IR"}

\* A player's state in the report week: on its owner's roster with points and
\* a selected position, or on no roster (a free agent with its points).
Rostered(x, pos) == [on_roster |-> TRUE, points |-> x, selected_position |-> pos]
Unrostered == [on_roster |-> FALSE, points |-> 1, selected_position |-> "BN"]
\* Player 2 starts as kicker, the others as quarterback; player 4 sits on
\* team 2's bench and is no part of any transaction.
StartPosition(p) == IF p = 2 THEN "K" ELSE "QB"
PlayerStates(p) ==
    IF p = 4 THEN {Rostered(x, "BN") : x \in {2, 4}}
    ELSE {Rostered(x, pos) :
             x \in (IF p <= 2 THEN PointValues ELSE {2}), pos \in {StartPosition(p), "BN"}}
           \cup {Unrostered}

\* b.eligible_positions: player 1 may play either starting position, player 2
\* is a kicker only, the others are quarterbacks only.
eligible_positions(p) ==
    CASE p = 1 -> {"QB", "K"}
      [] p = 2 -> {"K"}
      [] OTHER -> {"QB"}

Event(tid, pid) == [team_id |-> tid, player_id |-> pid]
TradeEvent(tid, rec, sent) == [team_id |-> tid, players_received |-> rec, players_sent |-> sent]

PickupChoices == {Event(OwnerOf(p), p) : p \in 1..3} \cup {Event(2, 1)}

RECURSIVE SeqsUpTo(_, _)
SeqsUpTo(S, n) ==
    IF n = 0 THEN {<<>>}
    ELSE LET shorter == SeqsUpTo(S, n - 1)
         IN  shorter \cup {Append(q, x) : q \in shorter, x \in S}

AddLists == SeqsUpTo(PickupChoices, MaxAdds)
ClaimLists == {<<>>, <<Event(2, 3)>>}
DropLists == {<<>>, <<Event(1, 1)>>, <<Event(2, 3)>>, <<Event(1, 1), Event(2, 3)>>}
TradeLists == {<<>>,
               <<TradeEvent(1, <<3>>, <<1, 2>>)>>,
               <<TradeEvent(1, <<3>>, <<1, 2>>), TradeEvent(2, <<1, 2>>, <<3>>)>>,
               <<TradeEvent(1, <<3>>, <<>>)>>}

\* curr_players.get(pid): the player when it is on a roster this week.
InCurrPlayers(pid) == players[pid].on_roster

\* pts = float(bp.points) if bp else 0.0
PickupPoints(pid) == IF InCurrPlayers(pid) THEN players[pid].points ELSE 0

\* points of a dropped player: on another roster, else as a free agent.
DropPoints(pid) == players[pid].points

\* trade_received_by_team[tid]
RECURSIVE TradeReceived(_, _)
TradeReceived(trades, tid) ==
    IF trades = <<>> THEN {}
    ELSE (IF Head(trades).team_id = tid
            THEN {Head(trades).players_received[i] :
                     i \in 1..Len(Head(trades).players_received)}
            ELSE {})
         \cup TradeReceived(Tail(trades), tid)

Candidate(tid, pid, pts) == [team |-> tid, player |-> pid, pts |-> pts]

\* fa_candidates (374-398): the adds and claims not acquired by trade.
RECURSIVE FaCandidates(_, _)
FaCandidates(pickups, trades) ==
    IF pickups = <<>> THEN <<>>
    ELSE LET ev == Head(pickups)
         IN  (IF ev.player_id \in TradeReceived(trades, ev.team_id) THEN <<>>
              ELSE <<Candidate(ev.team_id, ev.player_id, PickupPoints(ev.player_id))>>)
             \o FaCandidates(Tail(pickups), trades)

\* p = team_rosters[tid].get(pid); p and p.selected_position not in bench
IsStarted(c) ==
    /\ players[c.player].on_roster
    /\ OwnerOf(c.player) = c.team
    /\ players[c.player].selected_position \notin bench_positions

RECURSIVE SelectSeq2(_, _)
SelectSeq2(q, started) ==
    IF q = <<>> THEN <<>>
    ELSE (IF IsStarted(Head(q)) = started THEN <<Head(q)>> ELSE <<>>)
         \o SelectSeq2(Tail(q), started)

\* The sort key of a row: its points, net or delta.
KeyOf(x, kind) ==
    CASE kind = "pts" -> x.pts
      [] kind = "net" -> x.net
      [] OTHER -> x.delta

\* A sort that puts an element before the ones with an equal key.
RECURSIVE InsertStable_TiesFirst(_, _, _, _)
InsertStable_TiesFirst(x, q, kind, reverse) ==
    IF q = <<>> THEN <<x>>
    ELSE IF (IF reverse THEN KeyOf(x, kind) >= KeyOf(Head(q), kind)
                        ELSE KeyOf(x, kind) <= KeyOf(Head(q), kind))
           THEN <<x>> \o q
    ELSE <<Head(q)>> \o InsertStable_TiesFirst(x, Tail(q), kind, reverse)

\* list.sort(key=..., reverse=...): a stable insertion of each element in
\* turn; an element goes before the first one it strictly precedes.
RECURSIVE InsertStable(_, _, _, _)
InsertStable(x, q, kind, reverse) ==
    IF q = <<>> THEN <<x>>
    ELSE IF (IF reverse THEN KeyOf(x, kind) > KeyOf(Head(q), kind)
                        ELSE KeyOf(x, kind) < KeyOf(Head(q), kind))
           THEN <<x>> \o q
    ELSE <<Head(q)>> \o InsertStable(x, Tail(q), kind, reverse)

RECURSIVE StableSortInto(_, _, _, _)
StableSortInto(q, acc, kind, reverse) ==
    IF q = <<>> THEN acc
    ELSE StableSortInto(Tail(q), InsertStable(Head(q), acc, kind, reverse), kind, reverse)

StableSort(q, kind, reverse) == StableSortInto(q, <<>>, kind, reverse)

\* Worst start/sit of one team (331-359): the first bench/starter pair with
\* the largest positive delta, as a row; no row when there is none.
RosterOf(tid) == {p \in AwardPlayers : players[p].on_roster /\ OwnerOf(p) = tid}
StartSitPairs(tid) ==
    {<<b, st>> \in RosterOf(tid) \X RosterOf(tid) :
        /\ players[b].selected_position \in bench_positions
        /\ players[st].selected_position \notin bench_positions
        /\ players[st].selected_position \in eligible_positions(b)}
Delta(pair) == players[pair[1]].points - players[pair[2]].points
StartSitRow(tid) ==
    LET pairs == {pr \in StartSitPairs(tid) : Delta(pr) > 0}
        best == CHOOSE pr \in pairs :
                   \A o \in pairs :
                      \/ Delta(o) < Delta(pr)
                      \/ Delta(o) = Delta(pr)
                           /\ (pr[1] < o[1] \/ (pr[1] = o[1] /\ pr[2] <= o[2]))
    IN  IF pairs = {} THEN <<>>
        ELSE <<[team |-> tid, bench |-> best[1], starter |-> best[2], delta |-> Delta(best)]>>

FirstOf(q) == IF q = <<>> THEN <<>> ELSE <<Head(q)>>

\* awards_rows sorted by delta, lowest first.
WorstStartSit_Ascending(rows) == FirstOf(StableSort(rows, "delta", FALSE))

\* awards_rows sorted by delta, highest first, cut to one row (361-363).
SingleHighest(rows) == FirstOf(StableSort(rows, "delta", TRUE))
WorstStartSit == SingleHighest(StartSitRow(1) \o StartSitRow(2))

\* sum of the points of the listed players found in curr_players
RECURSIVE SumPoints(_)
SumPoints(ids) ==
    IF ids = <<>> THEN 0
    ELSE (IF InCurrPlayers(Head(ids)) THEN players[Head(ids)].points ELSE 0)
         + SumPoints(Tail(ids))

\* names(ids): the first two of the listed players
FirstTwo(ids) == SubSeq(ids, 1, Min(2, Len(ids)))

\* trade_rows (560-588): one row per trade event with received and sent players.
RECURSIVE TradeRows(_)
TradeRows(trades) ==
    IF trades = <<>> THEN <<>>
    ELSE LET ev == Head(trades)
         IN  (IF ev.players_received = <<>> \/ ev.players_sent = <<>> THEN <<>>
              ELSE <<[team |-> ev.team_id,
                      received |-> FirstTwo(ev.players_received),
                      sent |-> FirstTwo(ev.players_sent),
                      net |-> SumPoints(ev.players_received) - SumPoints(ev.players_sent)]>>)
             \o TradeRows(Tail(trades))

\* The honorable mention (481-488, 504-511): the extreme benched pickup when
\* it beats the started winner, else none.  An empty sequence stands for None.
BestHonorableMention(benched_fa, best_pts) ==
    IF benched_fa = <<>> THEN <<>>
    ELSE LET hm == Head(StableSort(benched_fa, "pts", TRUE))
         IN  IF hm.pts > best_pts THEN <<hm>> ELSE <<>>
WorstHonorableMention(benched_fa, worst_pts) ==
    IF benched_fa = <<>> THEN <<>>
    ELSE LET hm == Head(StableSort(benched_fa, "pts", FALSE))
         IN  IF hm.pts < worst_pts THEN <<hm>> ELSE <<>>

\* The awards as the body of the drop loop leaves them (439-594), given the
\* awards so far and the drop candidates sorted lowest first.
AwardsAfterBodyOf(a, drops_asc, candidates, trades) ==
    LET started_fa == SelectSeq2(candidates, TRUE)
        benched_fa == SelectSeq2(candidates, FALSE)
        trade_rows == TradeRows(trades)
        winners == IF started_fa # <<>> THEN started_fa ELSE benched_fa
        a1 == IF winners = <<>> THEN a
              ELSE [a EXCEPT
                      !.best_fa_pickups = <<Head(StableSort(winners, "pts", TRUE))>>,
                      !.worst_fa_pickups = <<Head(StableSort(winners, "pts", FALSE))>>]
        a2 == IF started_fa = <<>> THEN a1
              ELSE [a1 EXCEPT
                      !.best_fa_pickups_hm =
                          BestHonorableMention(benched_fa, a1.best_fa_pickups[1].pts),
                      !.worst_fa_pickups_hm =
                          WorstHonorableMention(benched_fa, a1.worst_fa_pickups[1].pts)]
        a3 == [a2 EXCEPT
                 !.best_drops = <<Head(drops_asc)>>,
                 !.worst_drops = <<Head(StableSort(drops_asc, "pts", TRUE))>>]
    IN  IF trade_rows = <<>> THEN a3
        ELSE [a3 EXCEPT
                !.best_trades = FirstOf(StableSort(trade_rows, "net", TRUE)),
                !.worst_trades =
                    FirstOf(StableSort(StableSort(trade_rows, "net", TRUE), "net", FALSE))]

AwardsAfterBody(a, drops_asc) ==
    AwardsAfterBodyOf(a, drops_asc, fa_candidates, events.trades)

(***************************************************************************)
(* The awards slice as a state machine                                     *)
(***************************************************************************)
InitAwards ==
    /\ pc = "report"
    /\ week_for_report = NumRegularSeasonWeeks
    /\ week_counter \in Weeks
    /\ players \in [AwardPlayers -> UNION {PlayerStates(p) : p \in AwardPlayers}]
    /\ \A p \in AwardPlayers : players[p] \in PlayerStates(p)
    /\ events \in [adds : AddLists, claims : ClaimLists, drops : DropLists, trades : TradeLists]
    /\ fa_candidates = <<>>
    /\ drop_candidates = <<>>
    /\ drop_idx = 0
    /\ awards = NoAwards
    /\ MedianIdle
    /\ TxIdle
    /\ AuxIdle

\* Line 310 when every week counts as the report week.
IsReportWeek_Always == TRUE

\* int(week_counter) == int(week_for_report)
IsReportWeek == week_counter = week_for_report

\* ReportData for a week that is not the report week (309-310): no award is computed.
SkipAwards ==
    /\ pc = "report"
    /\ ~IsReportWeek
    /\ pc' = "reported"
    /\ UNCHANGED <<week_for_report, awardVars>>
    /\ UNCHANGED <<wk, matchups_by_week, median_score_by_week,
                   league_median_records_by_team, teams_by_week,
                   current_median_standings>>
    /\ UNCHANGED txVars
    /\ UNCHANGED auxVars

\* The report week, up to the loop over the drop events (311-398): the worst
\* start/sit row and the free-agent pickup candidates.
AwardsPrologue ==
    /\ pc = "report"
    /\ IsReportWeek
    /\ awards' = [awards EXCEPT !.worst_startsit = WorstStartSit]
    /\ fa_candidates' = FaCandidates(events.adds \o events.claims, events.trades)
    /\ IF events.drops = <<>>
         THEN pc' = "reported" /\ drop_idx' = drop_idx
         ELSE pc' = "drops" /\ drop_idx' = 1
    /\ UNCHANGED <<week_for_report, week_counter, players, events, drop_candidates>>
    /\ UNCHANGED <<wk, matchups_by_week, median_score_by_week,
                   league_median_records_by_team, teams_by_week,
                   current_median_standings>>
    /\ UNCHANGED txVars
    /\ UNCHANGED auxVars

\* One iteration of the loop over the drop events (400-594).  The pickup,
\* drop and trade awards are assigned in the body of this loop.
DropIteration ==
    /\ pc = "drops"
    /\ LET ev == events.drops[drop_idx]
           appended == Append(drop_candidates,
                              Candidate(ev.team_id, ev.player_id, DropPoints(ev.player_id)))
           drops_asc == StableSort(appended, "pts", FALSE)
       IN  /\ awards' = AwardsAfterBody(awards, drops_asc)
           /\ drop_candidates' = StableSort(drops_asc, "pts", TRUE)
    /\ IF drop_idx < Len(events.drops)
         THEN drop_idx' = drop_idx + 1 /\ pc' = pc
         ELSE drop_idx' = drop_idx /\ pc' = "reported"
    /\ UNCHANGED <<week_for_report, week_counter, players, events, fa_candidates>>
    /\ UNCHANGED <<wk, matchups_by_week, median_score_by_week,
                   league_median_records_by_team, teams_by_week,
                   current_median_standings>>
    /\ UNCHANGED txVars
    /\ UNCHANGED auxVars

NextAwards == SkipAwards \/ AwardsPrologue \/ DropIteration

SpecAwards == InitAwards /\ [][NextAwards]_vars

(***************************************************************************)
(* Claims about the awards slice                                           *)
(***************************************************************************)
AwardsComputed == pc = "reported" /\ week_counter = week_for_report

\* The report week's add/claim pickups not acquired by trade, split by
\* whether the picked-up player was started.
StartedPickups == SelectSeq2(FaCandidates(events.adds \o events.claims, events.trades), TRUE)
InSeq(x, q) == \E i \in 1..Len(q) : q[i] = x

\* C4: whenever a pickup of the report week was started, the best pickup row
\* is the started pickup with the most points and the worst row the started
\* pickup with the fewest; a benched pickup wins only when none was started;
\* for every combination of events, a week without drop events included.
C4_StartedPickupWins ==
    AwardsComputed =>
       /\ StartedPickups # <<>> =>
             /\ Len(awards.best_fa_pickups) = 1
             /\ InSeq(awards.best_fa_pickups[1], StartedPickups)
             /\ \A i \in 1..Len(StartedPickups) :
                   StartedPickups[i].pts <= awards.best_fa_pickups[1].pts
             /\ Len(awards.worst_fa_pickups) = 1
             /\ InSeq(awards.worst_fa_pickups[1], StartedPickups)
             /\ \A i \in 1..Len(StartedPickups) :
                   StartedPickups[i].pts >= awards.worst_fa_pickups[1].pts
       /\ \A row \in {awards.best_fa_pickups[i] : i \in 1..Len(awards.best_fa_pickups)}
                \cup {awards.worst_fa_pickups[i] : i \in 1..Len(awards.worst_fa_pickups)} :
             ~InSeq(row, StartedPickups) => StartedPickups = <<>>

\* C5: when the report week has exactly one trade row with received and sent
\* players and its net is negative, the row is in worst_trades and not in
\* best_trades, with or without drop events; a trade event without received
\* or without sent players gives no row.
C5_LosingTradeIsWorstOnly ==
    AwardsComputed =>
       /\ \A row \in {awards.best_trades[i] : i \in 1..Len(awards.best_trades)}
                \cup {awards.worst_trades[i] : i \in 1..Len(awards.worst_trades)} :
             row.received # <<>> /\ row.sent # <<>>
       /\ (Len(TradeRows(events.trades)) = 1 /\ TradeRows(events.trades)[1].net < 0) =>
             /\ awards.worst_trades = TradeRows(events.trades)
             /\ ~InSeq(TradeRows(events.trades)[1], awards.best_trades)

\* The benched pickups of the report week and the extreme points of a
\* non-empty candidate list.
BenchedPickups == SelectSeq2(FaCandidates(events.adds \o events.claims, events.trades), FALSE)
MaxPts(q) == CHOOSE x \in {q[i].pts : i \in 1..Len(q)} : \A i \in 1..Len(q) : q[i].pts <= x
MinPts(q) == CHOOSE x \in {q[i].pts : i \in 1..Len(q)} : \A i \in 1..Len(q) : q[i].pts >= x
BestMentionDue ==
    StartedPickups # <<>> /\ BenchedPickups # <<>> /\ MaxPts(BenchedPickups) > MaxPts(StartedPickups)
WorstMentionDue ==
    StartedPickups # <<>> /\ BenchedPickups # <<>> /\ MinPts(BenchedPickups) < MinPts(StartedPickups)

\* C15: the honorable mention of the best (worst) pickup is reported exactly
\* when a pickup was started and the highest (lowest) scoring benched pickup
\* has strictly more (fewer) points than the started winner, and it names
\* that benched pickup; otherwise it is None.
C15_HonorableMention ==
    AwardsComputed =>
       /\ awards.best_fa_pickups_hm # <<>> <=> BestMentionDue
       /\ awards.best_fa_pickups_hm # <<>> =>
             /\ InSeq(awards.best_fa_pickups_hm[1], BenchedPickups)
             /\ awards.best_fa_pickups_hm[1].pts = MaxPts(BenchedPickups)
       /\ awards.worst_fa_pickups_hm # <<>> <=> WorstMentionDue
       /\ awards.worst_fa_pickups_hm # <<>> =>
             /\ InSeq(awards.worst_fa_pickups_hm[1], BenchedPickups)
             /\ awards.worst_fa_pickups_hm[1].pts = MinPts(BenchedPickups)

\* The same for the report weeks that have a drop event.
C15_HonorableMentionWithDrops == events.drops # <<>> => C15_HonorableMention

\* C18: ReportData built for a historical week (week_counter differs from
\* week_for_report) leaves every award output at its initial empty value.
C18_HistoricalWeekHasNoAwards ==
    (pc = "reported" /\ week_counter # week_for_report) => awards = NoAwards

\* A historical week with pickups, a drop, a trade and a swap that would
\* have gained points.
C18_Witness ==
    /\ pc = "reported"
    /\ week_counter # week_for_report
    /\ awards = NoAwards
    /\ events.adds # <<>> /\ events.drops # <<>> /\ events.trades # <<>>
    /\ \E b \in AwardPlayers, st \in AwardPlayers :
          /\ players[b].on_roster /\ players[st].on_roster
          /\ OwnerOf(b) = OwnerOf(st)
          /\ players[b].selected_position \in bench_positions
          /\ players[st].selected_position \in eligible_positions(b)
          /\ players[b].points > players[st].points

\* The bench/starter pairs of the league: two players of one team's roster,
\* the first in a bench slot, the second in a starting slot the first is
\* eligible for; and the bench player's points less the starter's.
SwapPairs ==
    {pr \in AwardPlayers \X AwardPlayers :
        /\ players[pr[1]].on_roster /\ players[pr[2]].on_roster
        /\ OwnerOf(pr[1]) = OwnerOf(pr[2])
        /\ players[pr[1]].selected_position \in bench_positions
        /\ players[pr[2]].selected_position \notin bench_positions
        /\ players[pr[2]].selected_position \in eligible_positions(pr[1])}
SwapDelta(pr) == players[pr[1]].points - players[pr[2]].points
PositiveSwaps == {pr \in SwapPairs : SwapDelta(pr) > 0}

\* C14: the worst start/sit award of the report week has at most one row;
\* the row's delta is the largest bench-minus-starter difference over all
\* teams and all eligible bench/starter pairs of one team, and the award is
\* empty exactly when no such pair has a positive difference.
C14_WorstStartSitIsLeagueMaximum ==
    AwardsComputed =>
       /\ Len(awards.worst_startsit) <= 1
       /\ awards.worst_startsit = <<>> <=> PositiveSwaps = {}
       /\ awards.worst_startsit # <<>> =>
             /\ \E pr \in PositiveSwaps :
                   /\ awards.worst_startsit[1].bench = pr[1]
                   /\ awards.worst_startsit[1].starter = pr[2]
                   /\ awards.worst_startsit[1].team = OwnerOf(pr[1])
                   /\ awards.worst_startsit[1].delta = SwapDelta(pr)
             /\ \A pr \in SwapPairs : SwapDelta(pr) <= awards.worst_startsit[1].delta

\* Both teams have a swap that would have gained points, team 2's gaining
\* more, and team 1 benches a higher scoring player that is not eligible for
\* the slot of its starter.
C14_Witness ==
    /\ AwardsComputed
    /\ \E p1 \in PositiveSwaps, p2 \in PositiveSwaps :
          /\ OwnerOf(p1[1]) = 1 /\ OwnerOf(p2[1]) = 2
          /\ SwapDelta(p1) < SwapDelta(p2)
    /\ awards.worst_startsit # <<>>
    /\ awards.worst_startsit[1].team = 2

\* No row although a benched player outscored a starter of its team: the
\* benched player is not eligible for the starter's slot.
C14_WitnessIneligible ==
    /\ AwardsComputed
    /\ awards.worst_startsit = <<>>
    /\ \E b \in AwardPlayers, st \in AwardPlayers :
          /\ players[b].on_roster /\ players[st].on_roster
          /\ OwnerOf(b) = OwnerOf(st)
          /\ players[b].selected_position \in bench_positions
          /\ players[st].selected_position \notin bench_positions
          /\ players[b].points > players[st].points

(***************************************************************************)
(* Week windows (fleaflicker.py 156-178, 312-323)                          *)
(*                                                                         *)
(* Times are ticks of the platform's epoch clock, counted from the start   *)
(* of the season window of the activity loop.  A tick stands for a day and *)
(* is the resolution of the clock: the tick before a week's start is the   *)
(* "start - 1" of the code.  Weeks start seven or eight ticks apart, and   *)
(* the season window, season_start to season_end, encloses every week      *)
(* window as September 1st to March 1st encloses the regular season.       *)
(***************************************************************************)
MaxItems == 1
season_start == 0
EightDays == 8

MaxTime == 7 * NumRegularSeasonWeeks + EightDays + 2
season_end == MaxTime
Times == 0..MaxTime

\* schedulePeriod.low.startEpochMilli of week w, when the scoreboard has one;
\* the schedule periods of successive weeks start at increasing times.
WeekStartChoices(w) == {7 * w, 7 * w + 1}
WeekStartTables ==
    UNION {{d \in [K -> Times] : \A w \in K : d[w] \in WeekStartChoices(w)} :
              K \in SUBSET Weeks}

\* sorted(week_start_ts.keys())
sorted_weeks ==
    SelectSeq([i \in 1..(NumRegularSeasonWeeks - start_week + 1) |-> start_week + i - 1],
              LAMBDA w : w \in DOMAIN week_start_ts)

\* The scan of _map_epoch from position i of sorted_weeks.
RECURSIVE MapScan(_, _)
MapScan(i, ts_ms) ==
    IF i > Len(sorted_weeks) THEN None
    ELSE LET start == week_start_ts[sorted_weeks[i]]
             end == IF i + 1 <= Len(sorted_weeks)
                      THEN week_start_ts[sorted_weeks[i + 1]] - 1
                      ELSE start + EightDays
         IN  IF start <= ts_ms /\ ts_ms <= end
               THEN sorted_weeks[i]
               ELSE MapScan(i + 1, ts_ms)

\* The same scan with the end of a window excluded from it.
map_epoch_EndExcluded(ts_ms) ==
    LET RECURSIVE scan(_)
        scan(i) ==
           IF i > Len(sorted_weeks) THEN None
           ELSE LET start == week_start_ts[sorted_weeks[i]]
                    end == IF i + 1 <= Len(sorted_weeks)
                             THEN week_start_ts[sorted_weeks[i + 1]] - 1
                             ELSE start + EightDays
                IN  IF start <= ts_ms /\ ts_ms < end THEN sorted_weeks[i] ELSE scan(i + 1)
    IN  scan(1)

\* _map_epoch of the activity loop and of the per-team loop.
map_epoch(ts_ms) == MapScan(1, ts_ms)

\* _map_epoch of the trades loop: a missing or zero time maps to nothing.
map_epoch_trade(ts_ms) == IF ~Truthy(ts_ms) THEN None ELSE map_epoch(ts_ms)

\* min(week_start_ts.values()) if week_start_ts else None
earliest_start_ts ==
    IF DOMAIN week_start_ts = {} THEN None
    ELSE CHOOSE x \in {week_start_ts[w] : w \in DOMAIN week_start_ts} :
            \A w \in DOMAIN week_start_ts : x <= week_start_ts[w]

(***************************************************************************)
(* Inputs of the transaction normalizer                                    *)
(***************************************************************************)
TxTeams == {1, 2}

\* transaction.type; an add comes without a type ("").
TxTypes == {"", "TRANSACTION_CLAIM", "TRANSACTION_DROP", "TRANSACTION_TRADE"}

\* The times the items of the feeds carry: on and next to the bounds of the
\* season window, and for every week the time that is its start or the tick
\* before its start.
FeedTimes == {season_start, season_start + 1, season_end} \cup {7 * w : w \in Weeks}

\* requestedGames[0].period.ordinal of a player block: None when the block has
\* no requested game or no usable ordinal.
Ordinals == {None} \cup (0..(NumRegularSeasonWeeks + 1))

\* transaction.player of an activity item.
PlayerBlock(id, ordinal) == [proPlayer |-> id, ordinal |-> ordinal]

\* transaction.team.id of the league activity items.
ActivityTeams == {1}

\* A league activity item: transaction.player is absent (<<>>) or one block,
\* transaction.players is absent or names one player.
ActivityItems ==
    {[timeEpochMilli |-> t, type |-> ty, team |-> tid, player |-> pb, players |-> ps] :
        t \in FeedTimes, ty \in TxTypes, tid \in ActivityTeams,
        pb \in {<<PlayerBlock(1, o)>> : o \in Ordinals}, ps \in {<<>>}}
      \cup
    {[timeEpochMilli |-> t, type |-> ty, team |-> tid, player |-> <<>>, players |-> ps] :
        t \in FeedTimes, ty \in TxTypes, tid \in ActivityTeams, ps \in {<<>>, <<1>>}}

\* An item of a team's transactions feed.
TeamItems ==
    [timeEpochMilli : FeedTimes, type : TxTypes, proPlayer : {None, 1}, ordinal : Ordinals]

\* requestedGames[0].period.startEpochMilli of an obtained player.
RgStarts == {None} \cup {7 * w : w \in Weeks}
\* An obtained player: requestedGames[0].period carries the ordinal of the
\* week that nominally starts at its startEpochMilli; without requested game
\* both are None.  ObtainedInPeriod is a player whose period names its
\* ordinal and no start.
Obtained(id, start_ms) ==
    [proPlayer |-> id, startEpochMilli |-> start_ms,
     ordinal |-> IF start_ms = None THEN None ELSE start_ms \div 7]
ObtainedInPeriod(id, ordinal) == [proPlayer |-> id, startEpochMilli |-> None, ordinal |-> ordinal]

\* playersObtained of the two teams of a trade.
FirstTeamObtains ==
    {<<>>} \cup {<<Obtained(1, r)>> : r \in RgStarts}
           \cup {<<Obtained(1, r1), Obtained(2, r2)>> :
                    r1 \in {None, 7 * start_week}, r2 \in RgStarts}
SecondTeamObtains ==
    {<<>>, <<Obtained(None, None)>>, <<ObtainedInPeriod(3, start_week)>>}
      \cup {<<Obtained(3, r)>> : r \in RgStarts}

\* A completed trade.  approvedOn stands for the first of the four time keys.
Trades(id) ==
    {[id |-> id, approvedOn |-> t,
      teams |-> <<[team |-> 1, playersObtained |-> a], [team |-> 2, playersObtained |-> b]>>] :
        t \in {None} \cup (FeedTimes \ {season_start}), a \in FirstTeamObtains, b \in SecondTeamObtains}

(***************************************************************************)
(* League activity loop (fleaflicker.py 270-379)                           *)
(***************************************************************************)
transaction_type(x) == IF x.type = "" THEN "TRANSACTION_ADD" ELSE x.type

\* "<KIND>" in transaction_type
Has(kind, ttype) == ttype = "TRANSACTION_" \o kind

pro_player_id(a) ==
    IF a.player # <<>> THEN a.player[1].proPlayer
    ELSE IF a.players # <<>> THEN a.players[1]
    ELSE None

\* The ordinal wins over the epoch-derived week.
week_ord_of_OrdinalWins(a) ==
    LET ordinal == IF a.player # <<>> THEN a.player[1].ordinal ELSE None
    IN  IF DOMAIN week_start_ts # {} /\ ordinal = None
          THEN map_epoch(a.timeEpochMilli)
          ELSE ordinal

\* week_ord of an activity item (291-341).
week_ord_of(a) ==
    LET ordinal == IF a.player # <<>> THEN a.player[1].ordinal ELSE None
    IN  IF DOMAIN week_start_ts # {}
          THEN LET mapped == map_epoch(a.timeEpochMilli)
               IN  IF ordinal = None THEN mapped
                   ELSE IF mapped # None /\ mapped # ordinal THEN mapped
                   ELSE ordinal
          ELSE ordinal

TxEvent(tid, pid) == [team_id |-> tid, player_id |-> pid]

AppendTo(tbw, w, kind, ev) == [tbw EXCEPT ![w][kind] = Append(@, ev)]

\* Lines 353-368.
RecordActivity(tbw, a, w) ==
    IF Truthy(pro_player_id(a)) /\ w \in DOMAIN tbw
      THEN LET ty == transaction_type(a)
               ev == TxEvent(a.team, pro_player_id(a))
           IN  IF Has("DROP", ty) THEN AppendTo(tbw, w, "drops", ev)
               ELSE IF Has("CLAIM", ty) THEN AppendTo(tbw, w, "claims", ev)
               ELSE IF Has("ADD", ty) THEN AppendTo(tbw, w, "adds", ev)
               ELSE IF Has("TRADE", ty) THEN AppendTo(tbw, w, "trades", a)
               ELSE tbw
      ELSE tbw

InSeason(a) == season_start < a.timeEpochMilli /\ a.timeEpochMilli < season_end

\* The logger calls of one iteration of the activity loop (327, 335, 345).
ActivityLog(a) ==
    LET ordinal == IF a.player # <<>> THEN a.player[1].ordinal ELSE None
        mapped == map_epoch(a.timeEpochMilli)
    IN  IF ~InSeason(a) THEN <<>>
        ELSE (IF DOMAIN week_start_ts # {} /\ ordinal = None /\ mapped # None
                THEN <<"Activity map">> ELSE <<>>)
             \o (IF DOMAIN week_start_ts # {} /\ ordinal # None /\ mapped # None
                      /\ mapped # ordinal
                   THEN <<"Activity ordinal mismatch">> ELSE <<>>)
             \o (IF ~Truthy(week_ord_of(a)) THEN <<"Activity skip (no week match)">> ELSE <<>>)

(***************************************************************************)
(* Completed trades loop (fleaflicker.py 398-477)                          *)
(***************************************************************************)
trade_ts_of(t) == IF Truthy(t.approvedOn) THEN t.approvedOn ELSE None

\* week_guess after the body of the loop over playersObtained for player p,
\* without the offseason rule.
week_guess_after_NoOffseason(p, trade_ts, week_guess) ==
    IF DOMAIN week_start_ts # {} /\ (Truthy(trade_ts) \/ ~Truthy(week_guess))
      THEN LET by_ts == IF Truthy(trade_ts) THEN map_epoch_trade(trade_ts) ELSE None
               mapped == IF by_ts = None
                           THEN (IF Truthy(p.startEpochMilli)
                                   THEN map_epoch_trade(p.startEpochMilli) ELSE None)
                           ELSE by_ts
           IN  IF mapped # None THEN mapped ELSE week_guess
      ELSE week_guess

\* week_guess after the body of the loop over playersObtained for player p (424-453).
week_guess_after(p, trade_ts, week_guess) ==
    IF DOMAIN week_start_ts # {} /\ (Truthy(trade_ts) \/ ~Truthy(week_guess))
      THEN LET by_ts == IF Truthy(trade_ts) THEN map_epoch_trade(trade_ts) ELSE None
               mapped == IF by_ts = None
                           THEN (IF Truthy(p.startEpochMilli)
                                   THEN map_epoch_trade(p.startEpochMilli) ELSE None)
                           ELSE by_ts
               guess == IF mapped # None THEN mapped ELSE week_guess
           IN  IF guess = None /\ trade_ts # None /\ earliest_start_ts # None
                    /\ trade_ts < earliest_start_ts
                 THEN start_week
                 ELSE guess
      ELSE week_guess

\* week_guess of a team entry: the loop over its playersObtained from position i.
RECURSIVE WeekGuess(_, _, _, _)
WeekGuess(obtained, i, trade_ts, week_guess) ==
    IF i > Len(obtained) THEN week_guess
    ELSE WeekGuess(obtained, i + 1, trade_ts, week_guess_after(obtained[i], trade_ts, week_guess))

\* rec_ids of a team entry.
RecIds(obtained) ==
    LET with_id == SelectSeq(obtained, LAMBDA p : p.proPlayer # None)
    IN  [i \in 1..Len(with_id) |-> with_id[i].proPlayer]

\* team_received of a trade: the loop over its teams from position i (413-458).
RECURSIVE TeamReceivedFrom(_, _)
TeamReceivedFrom(t, i) ==
    IF i > Len(t.teams) THEN <<>>
    ELSE LET entry == t.teams[i]
             rec_ids == RecIds(entry.playersObtained)
             week_guess == WeekGuess(entry.playersObtained, 1, trade_ts_of(t), None)
         IN  (IF rec_ids # <<>> /\ Truthy(week_guess)
                THEN <<[team_id |-> entry.team, rec_ids |-> rec_ids, week_guess |-> week_guess]>>
                ELSE <<>>)
             \o TeamReceivedFrom(t, i + 1)

\* sent_ids of position idx: the receipts of every other position, from jdx on.
RECURSIVE SentIds(_, _, _)
SentIds(received, idx, jdx) ==
    IF jdx > Len(received) THEN <<>>
    ELSE (IF jdx = idx THEN <<>> ELSE received[jdx].rec_ids) \o SentIds(received, idx, jdx + 1)

\* The loop that appends the trade events, from position idx (461-477).
RECURSIVE RecordTrade(_, _, _, _)
RecordTrade(tbw, t, received, idx) ==
    IF idx > Len(received) THEN tbw
    ELSE LET wk_key == received[idx].week_guess
             ev == [team_id |-> received[idx].team_id,
                    players_received |-> received[idx].rec_ids,
                    players_sent |-> SentIds(received, idx, 1),
                    trade_ts |-> trade_ts_of(t),
                    trade_id |-> t.id]
         IN  RecordTrade(IF wk_key \in DOMAIN tbw THEN AppendTo(tbw, wk_key, "trades", ev) ELSE tbw,
                         t, received, idx + 1)

(***************************************************************************)
(* Per-team transactions loop (fleaflicker.py 483-596)                     *)
(***************************************************************************)
\* wk_ord of a per-team item (535-565).
wk_ord_of(item) ==
    IF DOMAIN week_start_ts # {}
      THEN LET mapped == map_epoch(item.timeEpochMilli)
           IN  IF item.ordinal = None THEN mapped
               ELSE IF mapped # None /\ mapped # item.ordinal THEN mapped
               ELSE item.ordinal
      ELSE item.ordinal

\* kind of a per-team item (572-576); "" stands for None.
kind_of(ttype) ==
    IF Has("DROP", ttype) THEN "drops"
    ELSE IF Has("CLAIM", ttype) THEN "claims"
    ELSE IF Has("ADD", ttype) THEN "adds"
    ELSE ""

\* Whether lines 566-583 record the item.
Recorded(item, w) ==
    /\ Truthy(w)
    /\ w >= start_week /\ w <= NumRegularSeasonWeeks
    /\ kind_of(transaction_type(item)) # ""
    /\ item.proPlayer # None

\* The logger calls of one iteration of the per-team items loop (560, 584).
TeamItemLog(item) ==
    (IF DOMAIN week_start_ts # {} /\ item.ordinal # None
          /\ map_epoch(item.timeEpochMilli) # None
          /\ map_epoch(item.timeEpochMilli) # item.ordinal
       THEN <<"TeamTx ordinal mismatch">> ELSE <<>>)
    \o (IF Recorded(item, wk_ord_of(item)) THEN <<"TeamTx map">> ELSE <<>>)

\* Lines 566-583, should the event go to the bucket of the first week.
RecordTeamItem_FirstWeek(tbw, team_id, item, w) ==
    IF ~Truthy(w) THEN tbw
    ELSE IF w < start_week \/ w > NumRegularSeasonWeeks THEN tbw
    ELSE IF kind_of(transaction_type(item)) # "" /\ item.proPlayer # None
      THEN AppendTo(tbw, start_week, kind_of(transaction_type(item)),
                    TxEvent(team_id, item.proPlayer))
    ELSE tbw

\* Lines 566-583.
RecordTeamItem(tbw, team_id, item, w) ==
    IF ~Truthy(w) THEN tbw
    ELSE IF w < start_week \/ w > NumRegularSeasonWeeks THEN tbw
    ELSE IF kind_of(transaction_type(item)) # "" /\ item.proPlayer # None
      THEN AppendTo(tbw, w, kind_of(transaction_type(item)), TxEvent(team_id, item.proPlayer))
    ELSE tbw

(***************************************************************************)
(* The transaction normalizer as a state machine                           *)
(***************************************************************************)
\* The state after the scoreboard loop has built week_start_ts (156-178) and
\* the buckets of transactions_by_week are initialized (266-267).
InitTx ==
    /\ pc = "activity"
    /\ week_for_report = NumRegularSeasonWeeks
    /\ MedianIdle
    /\ AwardsIdle
    /\ week_start_ts \in WeekStartTables
    /\ transactions_by_week = [w \in Weeks |-> NoEvents]
    /\ activity = <<>>
    /\ week_ord = None
    /\ tr = <<>>
    /\ team_received = <<>>
    /\ tm = 0
    /\ it = <<>>
    /\ wk_ord = None
    /\ items_left = MaxItems
    /\ logged = <<>>
    /\ AuxIdle

\* One iteration of the league activity loop (270-379).
ProcessActivity ==
    /\ pc = "activity"
    /\ items_left > 0
    /\ \E a \in ActivityItems :
          /\ activity' = <<a>>
          /\ IF InSeason(a)
               THEN /\ week_ord' = week_ord_of(a)
                    /\ transactions_by_week' =
                          IF ~Truthy(week_ord_of(a)) THEN transactions_by_week
                          ELSE RecordActivity(transactions_by_week, a, week_ord_of(a))
               ELSE UNCHANGED <<week_ord, transactions_by_week>>
          /\ logged' = ActivityLog(a)
    /\ items_left' = items_left - 1
    /\ UNCHANGED <<pc, week_start_ts, tr, team_received, tm, it, wk_ord>>
    /\ UNCHANGED <<week_for_report, wk, matchups_by_week, median_score_by_week,
                   league_median_records_by_team, teams_by_week,
                   current_median_standings>>
    /\ UNCHANGED awardVars
    /\ UNCHANGED auxVars

\* The activity feed is exhausted: the trades are fetched (381-398).
FinishActivity ==
    /\ pc = "activity"
    /\ pc' = "trades"
    /\ activity' = <<>>
    /\ week_ord' = None
    /\ logged' = <<>>
    /\ UNCHANGED <<week_start_ts, transactions_by_week, tr, team_received, tm, it, wk_ord,
                   items_left>>
    /\ UNCHANGED <<week_for_report, wk, matchups_by_week, median_score_by_week,
                   league_median_records_by_team, teams_by_week,
                   current_median_standings>>
    /\ UNCHANGED awardVars
    /\ UNCHANGED auxVars

\* One iteration of the completed trades loop (399-477).
ProcessTrade ==
    /\ pc = "trades"
    /\ items_left > 0
    /\ \E t \in Trades(items_left) :
          /\ tr' = <<t>>
          /\ team_received' = TeamReceivedFrom(t, 1)
          /\ transactions_by_week' =
                RecordTrade(transactions_by_week, t, TeamReceivedFrom(t, 1), 1)
    /\ logged' = <<>>
    /\ items_left' = items_left - 1
    /\ UNCHANGED <<pc, week_start_ts, activity, week_ord, tm, it, wk_ord>>
    /\ UNCHANGED <<week_for_report, wk, matchups_by_week, median_score_by_week,
                   league_median_records_by_team, teams_by_week,
                   current_median_standings>>
    /\ UNCHANGED awardVars
    /\ UNCHANGED auxVars

\* The trades are exhausted: the loop over the teams starts (481-484).
FinishTrades ==
    /\ pc = "trades"
    /\ pc' = "teamtx"
    /\ tm' = 1
    /\ tr' = <<>>
    /\ team_received' = <<>>
    /\ logged' = <<>>
    /\ UNCHANGED <<week_start_ts, transactions_by_week, activity, week_ord, it, wk_ord,
                   items_left>>
    /\ UNCHANGED <<week_for_report, wk, matchups_by_week, median_score_by_week,
                   league_median_records_by_team, teams_by_week,
                   current_median_standings>>
    /\ UNCHANGED awardVars
    /\ UNCHANGED auxVars

\* One iteration of the loop over the items of team tm (528-589).
ProcessTeamItem ==
    /\ pc = "teamtx"
    /\ items_left > 0
    /\ \E item \in TeamItems :
          /\ it' = <<item>>
          /\ wk_ord' = wk_ord_of(item)
          /\ transactions_by_week' =
                RecordTeamItem(transactions_by_week, tm, item, wk_ord_of(item))
          /\ logged' = TeamItemLog(item)
    /\ items_left' = items_left - 1
    /\ UNCHANGED <<pc, week_start_ts, activity, week_ord, tr, team_received, tm>>
    /\ UNCHANGED <<week_for_report, wk, matchups_by_week, median_score_by_week,
                   league_median_records_by_team, teams_by_week,
                   current_median_standings>>
    /\ UNCHANGED awardVars
    /\ UNCHANGED auxVars

\* The feed of team tm is exhausted: the next team, or the end of the loop.
NextTeam ==
    /\ pc = "teamtx"
    /\ IF tm < Cardinality(TxTeams)
         THEN tm' = tm + 1 /\ pc' = pc
         ELSE tm' = tm /\ pc' = "normalized"
    /\ it' = <<>>
    /\ wk_ord' = None
    /\ logged' = <<>>
    /\ UNCHANGED <<week_start_ts, transactions_by_week, activity, week_ord, tr, team_received,
                   items_left>>
    /\ UNCHANGED <<week_for_report, wk, matchups_by_week, median_score_by_week,
                   league_median_records_by_team, teams_by_week,
                   current_median_standings>>
    /\ UNCHANGED awardVars
    /\ UNCHANGED auxVars

NextTx ==
    \/ ProcessActivity \/ FinishActivity
    \/ ProcessTrade \/ FinishTrades
    \/ ProcessTeamItem \/ NextTeam

SpecTx == InitTx /\ [][NextTx]_vars

(***************************************************************************)
(* Claims about the week windows and the transaction normalizer            *)
(***************************************************************************)

\* The week windows as the specification words them: the window of a known
\* week starts at its start and ends one tick before the start of the next
\* known week, or EightDays after its own start when it is the last.
KnownWeeks == DOMAIN week_start_ts
NextKnown(w) ==
    IF \E v \in KnownWeeks : v > w
      THEN CHOOSE v \in KnownWeeks : v > w /\ \A u \in KnownWeeks : u > w => v <= u
      ELSE None
WindowEnd(w) ==
    IF NextKnown(w) # None THEN week_start_ts[NextKnown(w)] - 1
    ELSE week_start_ts[w] + EightDays
InWindow(w, ts) == w \in KnownWeeks /\ week_start_ts[w] <= ts /\ ts <= WindowEnd(w)
WindowWeek(ts) ==
    IF \E w \in Weeks : InWindow(w, ts) THEN CHOOSE w \in Weeks : InWindow(w, ts) ELSE None

\* The week an item with explicit ordinal o (None: no ordinal) and time ts
\* belongs to: the week of the window holding ts, else o.
AttributedWeek(o, ts) == IF WindowWeek(ts) # None THEN WindowWeek(ts) ELSE o

\* The step appends ev to bucket kind of week w when w is a week of the
\* season, and leaves every bucket as it is otherwise.
AttributedTo(w, kind, ev) ==
    IF w \in Weeks
      THEN transactions_by_week' = AppendTo(transactions_by_week, w, kind, ev)
      ELSE transactions_by_week' = transactions_by_week

BucketOf(ty) ==
    CASE ty = "TRANSACTION_DROP" -> "drops"
      [] ty = "TRANSACTION_CLAIM" -> "claims"
      [] ty = "TRANSACTION_TRADE" -> "trades"
      [] OTHER -> "adds"

ActivityOrdinal(a) == IF a.player # <<>> THEN a.player[1].ordinal ELSE None
ActivityPlayer(a) ==
    IF a.player # <<>> THEN a.player[1].proPlayer
    ELSE IF a.players # <<>> THEN a.players[1] ELSE None

ActivityStep == pc = "activity" /\ items_left' = items_left - 1
TeamItemStep == pc = "teamtx" /\ items_left' = items_left - 1

\* The activity item a with a player is recorded in the week it belongs to.
ActivityAttributed(a) ==
    ActivityPlayer(a) # None =>
        AttributedTo(AttributedWeek(ActivityOrdinal(a), a.timeEpochMilli), BucketOf(a.type),
                     IF a.type = "TRANSACTION_TRADE" THEN a
                     ELSE TxEvent(a.team, ActivityPlayer(a)))

\* The add, claim or drop item of team tm with a player is recorded in the
\* week it belongs to.
TeamItemAttributed(item) ==
    (item.proPlayer # None /\ item.type # "TRANSACTION_TRADE") =>
        AttributedTo(AttributedWeek(item.ordinal, item.timeEpochMilli), BucketOf(item.type),
                     TxEvent(tm, item.proPlayer))

\* C6 as stated: every league activity item and every per-team item is
\* attributed to the week e its time maps to whenever e is defined, also when
\* its explicit ordinal o differs, and to o when e is undefined; an item
\* without ordinal is attributed to e.
C6_EpochWeekElseOrdinal ==
    [][/\ ActivityStep => ActivityAttributed(activity'[1])
       /\ TeamItemStep => TeamItemAttributed(it'[1])]_vars

\* C6 amended: the same, for the league activity items whose time lies
\* strictly inside the season window and for every per-team item; a league
\* activity item outside the season window is recorded nowhere.
C6_EpochWeekElseOrdinalInSeason ==
    [][/\ ActivityStep =>
             IF InSeason(activity'[1]) THEN ActivityAttributed(activity'[1])
             ELSE transactions_by_week' = transactions_by_week
       /\ TeamItemStep => TeamItemAttributed(it'[1])]_vars

\* A drop of the activity feed whose ordinal o and epoch week e are two
\* different weeks of the season has been recorded in e and not in o.
C6_Witness ==
    /\ pc = "activity"
    /\ activity # <<>>
    /\ InSeason(activity[1])
    /\ activity[1].type = "TRANSACTION_DROP"
    /\ activity[1].player # <<>>
    /\ activity[1].player[1].ordinal \in Weeks
    /\ WindowWeek(activity[1].timeEpochMilli) \in Weeks
    /\ WindowWeek(activity[1].timeEpochMilli) # activity[1].player[1].ordinal
    /\ week_ord = WindowWeek(activity[1].timeEpochMilli)
    /\ transactions_by_week[week_ord].drops = <<TxEvent(activity[1].team, 1)>>
    /\ transactions_by_week[activity[1].player[1].ordinal].drops = <<>>

\* C7: for every table of week starts (the table is fixed once the loops
\* run, so it is examined before the first item is taken), map_epoch(ts) is
\* week w exactly when ts lies in the window of w, and none exactly when no
\* window holds ts; for two consecutive known starts s1 < s2,
\* map_epoch(s2 - 1) is the week of s1 and map_epoch(s2) the week of s2; no
\* time lies in two windows; and the week the activity loop derives for an
\* item without ordinal is the week of the window holding its time.
C7_MapEpochIsWindow ==
    /\ (pc = "activity" /\ activity = <<>>) =>
          /\ \A ts \in Times : \A w \in Weeks : (map_epoch(ts) = w) <=> InWindow(w, ts)
          /\ \A ts \in Times : (map_epoch(ts) = None) <=> ~(\E w \in Weeks : InWindow(w, ts))
          /\ \A w \in KnownWeeks :
                (NextKnown(w) # None /\ week_start_ts[w] < week_start_ts[NextKnown(w)]) =>
                   /\ map_epoch(week_start_ts[NextKnown(w)] - 1) = w
                   /\ map_epoch(week_start_ts[NextKnown(w)]) = NextKnown(w)
          /\ \A ts \in Times : Cardinality({w \in Weeks : InWindow(w, ts)}) <= 1
    /\ (pc = "activity" /\ activity # <<>> /\ InSeason(activity[1])
          /\ KnownWeeks # {} /\ activity[1].player = <<>>) =>
             week_ord = WindowWeek(activity[1].timeEpochMilli)

\* An activity item without ordinal, timed one tick before the start s2 of
\* a known week, got the week of the preceding known start s1.
C7_Witness ==
    /\ pc = "activity"
    /\ activity # <<>>
    /\ activity[1].player = <<>>
    /\ \E w \in KnownWeeks :
          /\ NextKnown(w) # None
          /\ activity[1].timeEpochMilli = week_start_ts[NextKnown(w)] - 1
          /\ week_ord = w

\* The events of trade id in the trades bucket of week w.
TradeEventsIn(w, id) ==
    SelectSeq(transactions_by_week[w].trades,
              LAMBDA ev : "trade_id" \in DOMAIN ev /\ ev.trade_id = id)
EventsOfTeam(w, id, team) == SelectSeq(TradeEventsIn(w, id), LAMBDA ev : ev.team_id = team)
RecordedIn(w, id, team) == EventsOfTeam(w, id, team) # <<>>
RecordedOnlyIn(w, id, team) ==
    RecordedIn(w, id, team) /\ \A v \in Weeks \ {w} : ~RecordedIn(v, id, team)

TradeProcessed == pc = "trades" /\ tr # <<>>
OffseasonTrade ==
    /\ TradeProcessed
    /\ KnownWeeks # {}
    /\ trade_ts_of(tr[1]) # None
    /\ trade_ts_of(tr[1]) < earliest_start_ts

\* The positions of the obtained players whose requested game starts inside
\* a known week window.
PeriodMapped(obtained) ==
    {j \in 1..Len(obtained) :
        Truthy(obtained[j].startEpochMilli) /\ WindowWeek(obtained[j].startEpochMilli) # None}
LastOfSet(S) == CHOOSE j \in S : \A k \in S : k <= j

\* C8 as stated: every team that received a player in a trade timed before
\* the earliest known week start has its event in start_week, whatever the
\* requested-game periods of its players.
C8_OffseasonTradeInStartWeek ==
    OffseasonTrade =>
       \A i \in 1..Len(tr[1].teams) :
          RecIds(tr[1].teams[i].playersObtained) # <<>> =>
             RecordedOnlyIn(start_week, tr[1].id, tr[1].teams[i].team)

\* C8 amended: such a team has its event in start_week when none of the
\* players it obtained carries a requested-game period start inside a known
\* week window, and in the week of the window holding the period start of
\* the last such player otherwise.
C8_OffseasonTradeWeek ==
    OffseasonTrade =>
       \A i \in 1..Len(tr[1].teams) :
          LET obtained == tr[1].teams[i].playersObtained
          IN  RecIds(obtained) # <<>> =>
                 RecordedOnlyIn(IF PeriodMapped(obtained) = {} THEN start_week
                                ELSE WindowWeek(obtained[LastOfSet(PeriodMapped(obtained))].startEpochMilli),
                                tr[1].id, tr[1].teams[i].team)

\* An offseason trade whose first team obtained players without a mapped
\* period and is recorded in start_week, and whose second team obtained a
\* player with a period of a later week and is recorded in that week.
C8_Witness ==
    /\ OffseasonTrade
    /\ RecIds(tr[1].teams[1].playersObtained) # <<>>
    /\ PeriodMapped(tr[1].teams[1].playersObtained) = {}
    /\ RecordedOnlyIn(start_week, tr[1].id, 1)
    /\ RecIds(tr[1].teams[2].playersObtained) # <<>>
    /\ \E w \in Weeks \ {start_week} : RecordedOnlyIn(w, tr[1].id, 2)

\* The in-season week ordinals the requested-game periods of the obtained
\* players name.
ExplicitOrdinals(obtained) ==
    {obtained[j].ordinal : j \in 1..Len(obtained)} \cap Weeks

\* C19: a trade whose timestamp lies in no week window and not before the
\* earliest week start, and whose receiving team obtained a player carrying
\* an explicit in-season week ordinal, is recorded for that team in the week
\* of such an ordinal rather than dropped.
C19_TradeUsesReceivedOrdinal ==
    (/\ TradeProcessed
     /\ KnownWeeks # {}
     /\ trade_ts_of(tr[1]) # None
     /\ WindowWeek(trade_ts_of(tr[1])) = None
     /\ ~(trade_ts_of(tr[1]) < earliest_start_ts)) =>
       \A i \in 1..Len(tr[1].teams) :
          LET obtained == tr[1].teams[i].playersObtained
          IN  (RecIds(obtained) # <<>> /\ ExplicitOrdinals(obtained) # {}) =>
                 \E w \in ExplicitOrdinals(obtained) :
                    RecordedIn(w, tr[1].id, tr[1].teams[i].team)

\* The activity item, per-team item or trade team entry of the last
\* iteration was left out for want of a week (or of a week in range).
ActivityDropped ==
    /\ pc = "activity" /\ activity # <<>>
    /\ InSeason(activity[1])
    /\ ~Truthy(week_ord)
TeamItemDropped ==
    /\ pc = "teamtx" /\ it # <<>>
    /\ (~Truthy(wk_ord) \/ wk_ord < start_week \/ wk_ord > NumRegularSeasonWeeks)
TradeEntryDropped ==
    /\ TradeProcessed
    /\ \E i \in 1..Len(tr[1].teams) :
          /\ RecIds(tr[1].teams[i].playersObtained) # <<>>
          /\ \A j \in 1..Len(team_received) : team_received[j].team_id # tr[1].teams[i].team

\* C20: every activity item, per-team item and trade team entry that is
\* dropped leaves an entry in the log at the step that drops it.
C20_EveryDropIsLogged ==
    /\ ActivityDropped => InSeq("Activity skip (no week match)", logged)
    /\ TeamItemDropped => logged # <<>>
    /\ TradeEntryDropped => logged # <<>>

\* The part of C20 about the activity items.
C20_ActivityDropIsLogged ==
    ActivityDropped => InSeq("Activity skip (no week match)", logged)

\* The receipts of every team of trade t but the one at position i, in the
\* order of the teams, from position j on.
RECURSIVE OthersReceived(_, _, _)
OthersReceived(t, i, j) ==
    IF j > Len(t.teams) THEN <<>>
    ELSE (IF j = i THEN <<>> ELSE RecIds(t.teams[j].playersObtained))
         \o OthersReceived(t, i, j + 1)

RECURSIVE AllTradeEvents(_, _, _)
AllTradeEvents(id, team, w) ==
    IF w > NumRegularSeasonWeeks THEN <<>>
    ELSE EventsOfTeam(w, id, team) \o AllTradeEvents(id, team, w + 1)

\* C9: a recorded trade has exactly one event for every team that received
\* players, with players_received the team's own receipts and players_sent
\* the concatenation of the receipts of every other team of the trade.
C9_TradeEventPerTeam ==
    (TradeProcessed /\ \E w \in Weeks : TradeEventsIn(w, tr[1].id) # <<>>) =>
       \A i \in 1..Len(tr[1].teams) :
          LET rec_ids == RecIds(tr[1].teams[i].playersObtained)
              evs == AllTradeEvents(tr[1].id, tr[1].teams[i].team, start_week)
          IN  rec_ids # <<>> =>
                 /\ Len(evs) = 1
                 /\ evs[1].players_received = rec_ids
                 /\ evs[1].players_sent = OthersReceived(tr[1], i, 1)

\* C10: a processed trade has an event for every team that received players,
\* or for none of them.
C10_TradeAllOrNothing ==
    TradeProcessed =>
       LET receivers == {i \in 1..Len(tr[1].teams) :
                            RecIds(tr[1].teams[i].playersObtained) # <<>>}
           recorded(i) == \E w \in Weeks : RecordedIn(w, tr[1].id, tr[1].teams[i].team)
       IN  \/ \A i \in receivers : recorded(i)
           \/ \A i \in receivers : ~recorded(i)

(***************************************************************************)
(* Scraped league pages (fleaflicker.py 88-129)                            *)
(***************************************************************************)
MaxToken == 3

\* What the scores page has after "This Week": no such text (find_all is
\* empty), no list item behind it (findNext is None), or the last word of
\* the list item, a number or a word that is none.
NoMatch == 0 - 3
NoListItem == 0 - 4
WeekTexts == {NoMatch, NoListItem, NotANumber} \cup (1..MaxToken)

\* self.settings.num_playoff_slots and self.settings.num_regular_season_weeks
settings_num_playoff_slots == 6
settings_num_regular_season_weeks == 14

\* The text nodes behind the "Playoffs" element: none mentions "Weeks"
\* (None), one does without a word holding "-" (NoDash), or one holds the
\* word "<first>-<last>", first being a number or not.
NoDash == 0 - 5

\* The rules page: whether a dt/dd element precedes the "Playoffs" element,
\* whether there is a "Playoffs" element, whether an element follows it, the
\* text of that element's span (None: no span) and its "Weeks" text.
RulesPage(before, playoffs, next, span, weeks) ==
    [others_before |-> before, playoffs |-> playoffs, has_next |-> next,
     span |-> span, weeks |-> weeks]
RulesPages ==
    {RulesPage(b, FALSE, FALSE, None, None) : b \in BOOLEAN}
      \cup {RulesPage(b, TRUE, FALSE, None, None) : b \in BOOLEAN}
      \cup {RulesPage(b, TRUE, TRUE, sp, wt) :
              b \in BOOLEAN,
              sp \in {None, NotANumber} \cup (1..MaxToken),
              wt \in {None, NoDash, NotANumber} \cup (1..MaxToken)}

\* int(text): the number a text denotes; int raises ValueError on NotANumber.
IsNumber(token) == token >= 0

\* Lines 90-102: the value of scraped_current_week and whether the statement
\* raises past its except clause, which catches IndexError and AttributeError.
ScrapedWeek(text) ==
    IF text \in {NoMatch, NoListItem} THEN [value |-> None, raised |-> FALSE]
    ELSE IF IsNumber(text) THEN [value |-> text - 1, raised |-> FALSE]
    ELSE [value |-> None, raised |-> TRUE]

\* Lines 106-129: the league's playoff slots and regular season weeks after
\* the loop over the elements, and whether the loop raises.
ScrapedRules(page, slots0, weeks0) ==
    LET slots1 == IF page.others_before THEN settings_num_playoff_slots ELSE slots0
        weeks1 == IF page.others_before THEN settings_num_regular_season_weeks ELSE weeks0
    IN  IF ~page.playoffs
          THEN [slots |-> slots1, weeks |-> weeks1, raised |-> FALSE]
        ELSE IF ~page.has_next
          THEN [slots |-> slots1, weeks |-> weeks1, raised |-> TRUE]
        ELSE IF page.span # None /\ ~IsNumber(page.span)
          THEN [slots |-> slots1, weeks |-> weeks1, raised |-> TRUE]
        ELSE LET slots2 == IF page.span # None THEN page.span ELSE 0
             IN  IF page.weeks = NoDash
                   THEN [slots |-> slots2, weeks |-> weeks1, raised |-> FALSE]
                 ELSE IF page.weeks # None
                   THEN IF IsNumber(page.weeks)
                          THEN [slots |-> slots2, weeks |-> page.weeks - 1, raised |-> FALSE]
                          ELSE [slots |-> slots2, weeks |-> weeks1, raised |-> TRUE]
                 ELSE IF slots2 = 0
                   THEN [slots |-> slots2, weeks |-> IF season > 2020 THEN 18 ELSE 17,
                         raised |-> FALSE]
                 ELSE [slots |-> slots2, weeks |-> settings_num_regular_season_weeks,
                       raised |-> FALSE]

\* The state before the scores page is read (88).
InitScrape ==
    /\ pc = "scores"
    /\ week_for_report = NumRegularSeasonWeeks
    /\ MedianIdle
    /\ AwardsIdle
    /\ TxIdle
    /\ CacheIdle
    /\ ZIdle
    /\ LaterIdle
    /\ week_text \in WeekTexts
    /\ rules_page \in {<<page>> : page \in RulesPages}
    /\ season \in {2020, 2021}
    /\ scraped_current_week = None
    /\ num_playoff_slots = None
    /\ num_regular_season_weeks = None

\* Lines 88-102.  An exception that is not caught ends map_data_to_base.
ScrapeCurrentWeek ==
    /\ pc = "scores"
    /\ scraped_current_week' = ScrapedWeek(week_text).value
    /\ pc' = IF ScrapedWeek(week_text).raised THEN "aborted" ELSE "rules"
    /\ UNCHANGED <<week_text, rules_page, season, num_playoff_slots, num_regular_season_weeks>>
    /\ UNCHANGED <<week_for_report, wk, matchups_by_week, median_score_by_week,
                   league_median_records_by_team, teams_by_week, current_median_standings>>
    /\ UNCHANGED awardVars
    /\ UNCHANGED txVars
    /\ UNCHANGED cacheVars
    /\ UNCHANGED zVars
    /\ UNCHANGED laterVars

\* Lines 104-129.
ScrapeRules ==
    /\ pc = "rules"
    /\ LET out == ScrapedRules(rules_page[1], num_playoff_slots, num_regular_season_weeks)
       IN  /\ num_playoff_slots' = out.slots
           /\ num_regular_season_weeks' = out.weeks
           /\ pc' = IF out.raised THEN "aborted" ELSE "scraped"
    /\ UNCHANGED <<week_text, rules_page, season, scraped_current_week>>
    /\ UNCHANGED <<week_for_report, wk, matchups_by_week, median_score_by_week,
                   league_median_records_by_team, teams_by_week, current_median_standings>>
    /\ UNCHANGED awardVars
    /\ UNCHANGED txVars
    /\ UNCHANGED cacheVars
    /\ UNCHANGED zVars
    /\ UNCHANGED laterVars

NextScrape == ScrapeCurrentWeek \/ ScrapeRules

SpecScrape == InitScrape /\ [][NextScrape]_vars

\* C13: a malformed or missing scraped field never aborts the run: the run
\* gets past both pages, a current week that is missing or no number is None,
\* and a playoff-slot or playoff-weeks text that is no number leaves the
\* field at its default.
C13_ScrapeNeverAborts ==
    /\ pc # "aborted"
    /\ (pc \in {"rules", "scraped"} /\ ~IsNumber(week_text)) => scraped_current_week = None
    /\ (pc = "scraped" /\ rules_page[1].playoffs /\ rules_page[1].has_next
          /\ rules_page[1].weeks = NotANumber /\ rules_page[1].others_before) =>
             num_regular_season_weeks = settings_num_regular_season_weeks

(***************************************************************************)
(* The per-team transactions loop with its cache (fleaflicker.py 481-611)  *)
(***************************************************************************)
\* A cache file of a team and week: absent, present but not loadable, or the
\* list of events a run with save_data wrote (606-607).
Missing == [file |-> "missing"]
Unreadable == [file |-> "unreadable"]
CachedList(evs) == [file |-> "list", events |-> evs]
CachedEvent(kind, pid) == [kind |-> kind, player_id |-> pid]
CachedLists ==
    {<<>>,
     <<CachedEvent("adds", 1)>>,
     <<CachedEvent("drops", 2), CachedEvent("claims", 1)>>}
CacheFiles == {Missing, Unreadable} \cup {CachedList(evs) : evs \in CachedLists}

\* Lines 490-500 when the first file that is absent or not loadable ends the
\* loop over the weeks.
team_events_by_week_StopAtFirstMiss(team_id, w) ==
    IF \A v \in start_week..w : cache[team_id][v].file = "list"
      THEN cache[team_id][w].events ELSE <<>>

\* team_events_by_week after lines 490-500, with [] for a week without entry.
team_events_by_week(team_id, w) ==
    IF cache[team_id][w].file = "list" THEN cache[team_id][w].events ELSE <<>>

\* Lines 503-506 for the events of one week.
RECURSIVE HydrateEvents(_, _, _, _)
HydrateEvents(tbw, team_id, w, evs) ==
    IF evs = <<>> THEN tbw
    ELSE HydrateEvents(AppendTo(tbw, w, Head(evs).kind, TxEvent(team_id, Head(evs).player_id)),
                       team_id, w, Tail(evs))

\* Lines 502-506: the weeks in the order they entered team_events_by_week.
RECURSIVE HydrateWeeks(_, _, _)
HydrateWeeks(tbw, team_id, w) ==
    IF w > week_for_report THEN tbw
    ELSE HydrateWeeks(HydrateEvents(tbw, team_id, w, team_events_by_week(team_id, w)),
                      team_id, w + 1)

\* The cache after lines 598-607.
WriteCache(files, team_id, item, w) ==
    IF save_data /\ Recorded(item, w)
      THEN [files EXCEPT ![team_id][w] =
              CachedList(<<CachedEvent(kind_of(transaction_type(item)), item.proPlayer)>>)]
      ELSE files

\* The items of a team's feed when it is queried: without requested game,
\* dated at a week's start or at the start of the season window.
FeedItems ==
    {item \in TeamItems :
        /\ item.ordinal = None
        /\ item.timeEpochMilli \in {season_start} \cup {7 * w : w \in Weeks}}

\* The state when the per-team loop starts (481): the week windows, the
\* buckets with what the activity loop left in them, and the cache files,
\* none yet when the run is not offline.
InitCache ==
    /\ pc = "teamtx"
    /\ week_for_report = NumRegularSeasonWeeks
    /\ MedianIdle
    /\ AwardsIdle
    /\ ScrapeIdle
    /\ ZIdle
    /\ LaterIdle
    /\ week_start_ts = [w \in Weeks |-> 7 * w]
    /\ transactions_by_week \in
          {[w \in Weeks |-> NoEvents],
           AppendTo([w \in Weeks |-> NoEvents], start_week, "adds", TxEvent(2, 1))}
    /\ activity = <<>>
    /\ week_ord = None
    /\ tr = <<>>
    /\ team_received = <<>>
    /\ tm = 1
    /\ it = <<>>
    /\ wk_ord = None
    /\ items_left = 0
    /\ logged = <<>>
    /\ offline \in BOOLEAN
    /\ save_data \in BOOLEAN
    /\ cache \in [TxTeams -> [Weeks -> CacheFiles]]
    /\ ~offline => cache = [t \in TxTeams |-> [w \in Weeks |-> Missing]]
    /\ requests = 0

\* The iteration of team tm in offline mode (488-507).
HydrateTeam ==
    /\ pc = "teamtx"
    /\ offline
    /\ transactions_by_week' = HydrateWeeks(transactions_by_week, tm, start_week)
    /\ logged' = <<>>
    /\ IF tm < Cardinality(TxTeams)
         THEN tm' = tm + 1 /\ pc' = pc
         ELSE tm' = tm /\ pc' = "normalized"
    /\ UNCHANGED <<week_start_ts, activity, week_ord, tr, team_received, it, wk_ord, items_left>>
    /\ UNCHANGED cacheVars
    /\ UNCHANGED <<week_for_report, wk, matchups_by_week, median_score_by_week,
                   league_median_records_by_team, teams_by_week, current_median_standings>>
    /\ UNCHANGED awardVars
    /\ UNCHANGED scrapeVars
    /\ UNCHANGED zVars
    /\ UNCHANGED laterVars

\* The iteration of team tm when not offline (509-609), for a feed of one
\* page with one item: the feed is queried, the item recorded and the cache
\* file of its week written.
FetchTeamFeed ==
    /\ pc = "teamtx"
    /\ ~offline
    /\ requests' = requests + 1
    /\ \E item \in FeedItems :
          /\ it' = <<item>>
          /\ wk_ord' = wk_ord_of(item)
          /\ transactions_by_week' =
                RecordTeamItem(transactions_by_week, tm, item, wk_ord_of(item))
          /\ cache' = WriteCache(cache, tm, item, wk_ord_of(item))
          /\ logged' = TeamItemLog(item)
    /\ IF tm < Cardinality(TxTeams)
         THEN tm' = tm + 1 /\ pc' = pc
         ELSE tm' = tm /\ pc' = "normalized"
    /\ UNCHANGED <<week_start_ts, activity, week_ord, tr, team_received, items_left>>
    /\ UNCHANGED <<offline, save_data>>
    /\ UNCHANGED <<week_for_report, wk, matchups_by_week, median_score_by_week,
                   league_median_records_by_team, teams_by_week, current_median_standings>>
    /\ UNCHANGED awardVars
    /\ UNCHANGED scrapeVars
    /\ UNCHANGED zVars
    /\ UNCHANGED laterVars

NextCache == HydrateTeam \/ FetchTeamFeed

SpecCache == InitCache /\ [][NextCache]_vars

\* The cached events of a kind among the events of a file, in file order.
RECURSIVE OfKind(_, _, _)
OfKind(evs, kind, team_id) ==
    IF evs = <<>> THEN <<>>
    ELSE (IF Head(evs).kind = kind THEN <<TxEvent(team_id, Head(evs).player_id)>> ELSE <<>>)
         \o OfKind(Tail(evs), kind, team_id)
ReadableEvents(team_id, w) ==
    IF cache[team_id][w].file = "list" THEN cache[team_id][w].events ELSE <<>>

\* C16: in offline mode the iteration of a team issues no request for the
\* team's feed, raises no error, and appends to every bucket of the weeks up
\* to the report week exactly the cached events of the team's readable file
\* of that week; a week whose file is missing or unreadable contributes
\* nothing and does not keep the other weeks and teams from being hydrated.
C16_OfflineHydratesReadableFiles ==
    [][(pc = "teamtx" /\ offline) =>
          /\ requests' = requests
          /\ pc' \in {"teamtx", "normalized"}
          /\ \A w \in Weeks, kind \in {"adds", "claims", "drops", "trades"} :
                transactions_by_week'[w][kind] =
                   transactions_by_week[w][kind] \o OfKind(ReadableEvents(tm, w), kind, tm)]_vars

\* Team 1 has no file for the first week and an unreadable one for the last,
\* and the events of team 2's file of the last week are in the buckets.
C16_Witness ==
    /\ pc = "normalized"
    /\ offline
    /\ requests = 0
    /\ cache[1][start_week] = Missing
    /\ cache[1][week_for_report] = Unreadable
    /\ cache[2][start_week] = Unreadable
    /\ cache[2][week_for_report] =
          CachedList(<<CachedEvent("drops", 2), CachedEvent("claims", 1)>>)
    /\ InSeq(TxEvent(2, 2), transactions_by_week[week_for_report].drops)
    /\ InSeq(TxEvent(2, 1), transactions_by_week[week_for_report].claims)

(***************************************************************************)
(* The z-score table (data.py 218-241)                                     *)
(*                                                                         *)
(* A z-score is an integer counting thousandths; the table shows it        *)
(* rounded to hundredths.  An optional value is a sequence of length at    *)
(* most one, the empty one standing for None (and for "N/A" in a row).     *)
(***************************************************************************)
MaxZTeams == 3

ZTeams == 1..MaxZTeams
ZValues == {<<>>, <<0 - 12>>, <<0 - 4>>, <<0>>, <<4>>, <<12>>}

\* Lines 225-227 when the teams without z-score are left out.
Coerced_DropUndefined(results) == [t \in {u \in DOMAIN results : results[u] # <<>>} |-> results[t][1]]

\* Lines 225-227: 0 if not z_score_val else z_score_val.
Coerced(results) == [t \in DOMAIN results |-> IF results[t] = <<>> THEN 0 ELSE results[t][1]]

\* round(float(z_score), 2), in hundredths; no value of the model is a tie.
RoundZ(z) == (z + 5) \div 10

\* Lines 233-237: the z-score as the row shows it.
Shown(z) == IF z # 0 THEN <<RoundZ(z)>> ELSE <<>>

\* sorted(z_score_results.items(), key=lambda x: x[1], reverse=True): the
\* teams in dict order, each inserted behind the teams it does not exceed.
RECURSIVE InsertZ(_, _, _)
InsertZ(t, q, z) ==
    IF q = <<>> THEN <<t>>
    ELSE IF z[t] > z[Head(q)] THEN <<t>> \o q
    ELSE <<Head(q)>> \o InsertZ(t, Tail(q), z)

RECURSIVE SortedZ(_, _, _)
SortedZ(t, acc, z) ==
    IF t \notin DOMAIN z THEN acc
    ELSE SortedZ(t + 1, InsertZ(t, acc, z), z)

\* Lines 231-241: one row per item, ranked from 1.
ZRows(z) ==
    LET order == SortedZ(1, <<>>, z)
    IN  [i \in 1..Len(order) |->
           [rank |-> i, team |-> order[i], z_score |-> Shown(z[order[i]])]]

\* Lines 219-241.
ZScoreData(results) ==
    IF \A t \in DOMAIN results : results[t] = <<>> THEN <<>>
    ELSE ZRows(Coerced(results))

InitZ ==
    /\ pc = "zscores"
    /\ week_for_report = NumRegularSeasonWeeks
    /\ MedianIdle
    /\ AwardsIdle
    /\ TxIdle
    /\ ScrapeIdle
    /\ CacheIdle
    /\ LaterIdle
    /\ z_score_results \in [ZTeams -> ZValues]
    /\ data_for_z_scores = <<>>

\* Lines 218-241.
BuildZScores ==
    /\ pc = "zscores"
    /\ data_for_z_scores' = ZScoreData(z_score_results)
    /\ pc' = "zdone"
    /\ UNCHANGED z_score_results
    /\ UNCHANGED <<week_for_report, wk, matchups_by_week, median_score_by_week,
                   league_median_records_by_team, teams_by_week, current_median_standings>>
    /\ UNCHANGED awardVars
    /\ UNCHANGED txVars
    /\ UNCHANGED scrapeVars
    /\ UNCHANGED cacheVars
    /\ UNCHANGED laterVars

NextZ == BuildZScores

SpecZ == InitZ /\ [][NextZ]_vars

\* The z-score a team is ranked by: its own, or 0 when it has none.
RankedBy(t) == IF z_score_results[t] = <<>> THEN 0 ELSE z_score_results[t][1]

\* C17: the z-score table is empty when every team's z-score is undefined;
\* otherwise it has exactly one row per team, ranked 1..n in this order, the
\* rows descending by z-score with an undefined z-score counting as 0.
C17_ZScoreTable ==
    pc = "zdone" =>
       IF \A t \in ZTeams : z_score_results[t] = <<>>
         THEN data_for_z_scores = <<>>
         ELSE /\ Len(data_for_z_scores) = Cardinality(ZTeams)
              /\ \A t \in ZTeams :
                    Cardinality({i \in 1..Len(data_for_z_scores) :
                                    data_for_z_scores[i].team = t}) = 1
              /\ \A i \in 1..Len(data_for_z_scores) : data_for_z_scores[i].rank = i
              /\ \A i \in 1..(Len(data_for_z_scores) - 1) :
                    RankedBy(data_for_z_scores[i].team) >=
                       RankedBy(data_for_z_scores[i + 1].team)

\* A team without z-score is ranked between a team above 0 and one below.
C17_Witness ==
    /\ pc = "zdone"
    /\ Len(data_for_z_scores) = Cardinality(ZTeams)
    /\ \E i \in 2..(Len(data_for_z_scores) - 1) :
          /\ z_score_results[data_for_z_scores[i].team] = <<>>
          /\ RankedBy(data_for_z_scores[i - 1].team) > 0
          /\ RankedBy(data_for_z_scores[i + 1].team) < 0

(***************************************************************************)
(* Paging of the per-team feeds (fleaflicker.py 481-611)                   *)
(***************************************************************************)
MaxPages == 2

\* The items of the paged feeds: adds of one player, dated before the first
\* week window or at a week's start, with or without a requested game of the
\* first week.
PagedItems ==
    {item \in TeamItems :
        /\ item.type = "" /\ item.proPlayer = 1
        /\ item.ordinal \in {None, start_week}
        /\ item.timeEpochMilli \in {season_start + 1} \cup {7 * w : w \in Weeks}}

\* A page holds one item, or two without requested game; a feed has up to
\* MaxPages pages and its items are ordered newest first.
Flat(f) ==
    IF f = <<>> THEN <<>>
    ELSE LET RECURSIVE F(_)
             F(i) == IF i > Len(f) THEN <<>> ELSE f[i] \o F(i + 1)
         IN  F(1)
NewestFirst(items) ==
    \A i \in 1..(Len(items) - 1) : items[i].timeEpochMilli >= items[i + 1].timeEpochMilli
PageChoices ==
    {<<item>> : item \in PagedItems}
      \cup {<<x, y>> : x \in {i \in PagedItems : i.ordinal = None},
                       y \in {i \in PagedItems : i.ordinal = None}}
Feeds == {f \in SeqsUpTo(PageChoices, MaxPages) : NewestFirst(Flat(f))}
SecondFeeds == {<<>>} \cup {<<<<item>>>> : item \in {i \in PagedItems : i.ordinal = None}}

\* Whether the item gets past the two `continue` of lines 566-571.
Passes(item) ==
    /\ Truthy(wk_ord_of(item))
    /\ wk_ord_of(item) >= start_week /\ wk_ord_of(item) <= NumRegularSeasonWeeks

\* oldest_ts after the items of a page from position i (527, 587-589).
RECURSIVE oldest_ts_from(_, _, _)
oldest_ts_from(page, i, oldest) ==
    IF i > Len(page) THEN oldest
    ELSE oldest_ts_from(page, i + 1,
            IF Passes(page[i]) /\ (oldest = None \/ page[i].timeEpochMilli < oldest)
              THEN page[i].timeEpochMilli ELSE oldest)

\* earliest_start and oldest_ts and oldest_ts < earliest_start (595)
EarlyStop(page) ==
    /\ Truthy(earliest_start_ts)
    /\ Truthy(oldest_ts_from(page, 1, None))
    /\ oldest_ts_from(page, 1, None) < earliest_start_ts

\* transactions_by_week after the items of a page from position i (528-586).
RECURSIVE RecordPage(_, _, _, _)
RecordPage(tbw, team_id, page, i) ==
    IF i > Len(page) THEN tbw
    ELSE RecordPage(RecordTeamItem(tbw, team_id, page[i], wk_ord_of(page[i])),
                    team_id, page, i + 1)

\* team_events_by_week after the items of a page from position i (578-579);
\* a week without entry holds the empty list.
RECURSIVE EventsOfPage(_, _, _)
EventsOfPage(te, page, i) ==
    IF i > Len(page) THEN te
    ELSE EventsOfPage(
            IF Recorded(page[i], wk_ord_of(page[i]))
              THEN [te EXCEPT ![wk_ord_of(page[i])] =
                      Append(@, CachedEvent(kind_of(transaction_type(page[i])),
                                            page[i].proPlayer))]
              ELSE te,
            page, i + 1)

RECURSIVE LogOfPage(_, _)
LogOfPage(page, i) ==
    IF i > Len(page) THEN <<>> ELSE TeamItemLog(page[i]) \o LogOfPage(page, i + 1)

\* The cache files of a team after lines 598-607.
WriteTeamCache(files, team_id, te) ==
    IF save_data
      THEN [files EXCEPT ![team_id] =
              [w \in Weeks |-> IF te[w] # <<>> THEN CachedList(te[w]) ELSE @[w]]]
      ELSE files

NoTeamEvents == [w \in Weeks |-> <<>>]

\* The page a request with the current result_offset asks for.
PageNo == IF result_offset = None THEN 1 ELSE result_offset + 1

\* The state when the per-team loop starts (481), online.
InitFeed ==
    /\ pc = "teamtx"
    /\ week_for_report = NumRegularSeasonWeeks
    /\ MedianIdle
    /\ AwardsIdle
    /\ ScrapeIdle
    /\ ZIdle
    /\ PagingIdle
    /\ LastIdle
    /\ week_start_ts \in {<<>>, [w \in Weeks |-> 7 * w]}
    /\ transactions_by_week = [w \in Weeks |-> NoEvents]
    /\ activity = <<>>
    /\ week_ord = None
    /\ tr = <<>>
    /\ team_received = <<>>
    /\ tm = 1
    /\ it = <<>>
    /\ wk_ord = None
    /\ items_left = 0
    /\ logged = <<>>
    /\ offline = FALSE
    /\ save_data \in BOOLEAN
    /\ cache = [t \in TxTeams |-> [w \in Weeks |-> Missing]]
    /\ requests = 0
    /\ feed \in [TxTeams -> Feeds]
    /\ feed[2] \in SecondFeeds
    /\ result_offset = None
    /\ fails \in {<<>>} \cup {<<t, k>> : t \in TxTeams, k \in 1..MaxPages}
    /\ fails # <<>> => fails[2] <= Len(feed[fails[1]]) \/ fails[2] = 1
    /\ team_events = NoTeamEvents

\* One iteration of `while True` for team tm (519-596) and, when it leaves
\* the loop, the write of the team's cache files and the step to the next
\* team (598-609, 483).
FetchPage ==
    /\ pc = "teamtx"
    /\ fails # <<tm, PageNo>>
    /\ requests' = requests + 1
    /\ LET page == IF PageNo <= Len(feed[tm]) THEN feed[tm][PageNo] ELSE <<>>
           resultOffsetNext == IF PageNo < Len(feed[tm]) THEN PageNo ELSE None
           te == EventsOfPage(team_events, page, 1)
           leaves == page = <<>> \/ ~Truthy(resultOffsetNext) \/ EarlyStop(page)
       IN  /\ transactions_by_week' = RecordPage(transactions_by_week, tm, page, 1)
           /\ logged' = LogOfPage(page, 1)
           /\ it' = IF page = <<>> THEN <<>> ELSE <<page[Len(page)]>>
           /\ wk_ord' = IF page = <<>> THEN None ELSE wk_ord_of(page[Len(page)])
           /\ IF leaves
                THEN /\ cache' = WriteTeamCache(cache, tm, te)
                     /\ team_events' = NoTeamEvents
                     /\ result_offset' = None
                     /\ IF tm < Cardinality(TxTeams)
                          THEN tm' = tm + 1 /\ pc' = pc
                          ELSE tm' = tm /\ pc' = "normalized"
                ELSE /\ cache' = cache
                     /\ team_events' = te
                     /\ result_offset' = resultOffsetNext
                     /\ UNCHANGED <<tm, pc>>
    /\ UNCHANGED <<week_start_ts, activity, week_ord, tr, team_received, items_left>>
    /\ UNCHANGED <<offline, save_data, feed, fails>>
    /\ UNCHANGED <<week_for_report, wk, matchups_by_week, median_score_by_week,
                   league_median_records_by_team, teams_by_week, current_median_standings>>
    /\ UNCHANGED awardVars
    /\ UNCHANGED scrapeVars
    /\ UNCHANGED zVars
    /\ UNCHANGED <<pagingVars, lastVars>>

\* Where an exception of the paging goes, were the try of line 482 inside
\* the loop over the teams: on to the next team.
AfterFailure_NextTeam(t) ==
    IF t < Cardinality(TxTeams)
      THEN [pc |-> "teamtx", tm |-> t + 1, result_offset |-> None, team_events |-> NoTeamEvents]
      ELSE [pc |-> "normalized", tm |-> t, result_offset |-> None, team_events |-> NoTeamEvents]

\* Where an exception of the paging of team t goes: the try of line 482 holds
\* the whole loop over the teams, so the except clause of line 610 is next.
AfterFailure(t) ==
    [pc |-> "normalized", tm |-> t, result_offset |-> result_offset, team_events |-> team_events]

\* The request for a page raises: the except clause of line 610 logs it and
\* the per-team loop is over.
FailPage ==
    /\ pc = "teamtx"
    /\ fails = <<tm, PageNo>>
    /\ requests' = requests + 1
    /\ pc' = AfterFailure(tm).pc
    /\ tm' = AfterFailure(tm).tm
    /\ result_offset' = AfterFailure(tm).result_offset
    /\ team_events' = AfterFailure(tm).team_events
    /\ logged' = <<"Per-team transaction fetch failed">>
    /\ UNCHANGED <<week_start_ts, transactions_by_week, activity, week_ord, tr, team_received,
                   it, wk_ord, items_left>>
    /\ UNCHANGED <<offline, save_data, cache, feed, fails>>
    /\ UNCHANGED <<week_for_report, wk, matchups_by_week, median_score_by_week,
                   league_median_records_by_team, teams_by_week, current_median_standings>>
    /\ UNCHANGED awardVars
    /\ UNCHANGED scrapeVars
    /\ UNCHANGED zVars
    /\ UNCHANGED <<pagingVars, lastVars>>

NextFeed == FetchPage \/ FailPage

SpecFeed == InitFeed /\ [][NextFeed]_vars

\* transactions_by_week when the cursor of every feed is followed to its
\* end: the pages of feed f from position k, then the feeds of the teams
\* from team t on.
RECURSIVE AllPages(_, _, _, _)
AllPages(tbw, team_id, f, k) ==
    IF k > Len(f) THEN tbw
    ELSE AllPages(RecordPage(tbw, team_id, f[k], 1), team_id, f, k + 1)
RECURSIVE AllFeeds(_, _)
AllFeeds(tbw, t) ==
    IF t \notin TxTeams THEN tbw
    ELSE AllFeeds(AllPages(tbw, t, feed[t], 1), t + 1)

\* The step leaves the paging of team tm although the page came with a cursor.
StopsEarly ==
    /\ pc = "teamtx"
    /\ fails # <<tm, PageNo>>
    /\ PageNo < Len(feed[tm])
    /\ (tm' # tm \/ pc' = "normalized")

\* C21: the paging of a team's feed ends before the cursor is exhausted only
\* after a page whose oldest item predates the earliest week-window start,
\* and when no request fails the buckets hold at the end what they would hold
\* had every cursor been followed to its end.
C21_EarlyStopLosesNothing ==
    [][/\ StopsEarly =>
             \E i \in 1..Len(feed[tm][PageNo]) :
                feed[tm][PageNo][i].timeEpochMilli < earliest_start_ts
       /\ (pc' = "normalized" /\ fails = <<>>) =>
             transactions_by_week' = AllFeeds([w \in Weeks |-> NoEvents], 1)]_vars

\* The first part of C21 alone.
C21_EarlyStopOnlyBeforeSeason ==
    [][StopsEarly =>
          \E i \in 1..Len(feed[tm][PageNo]) :
             feed[tm][PageNo][i].timeEpochMilli < earliest_start_ts]_vars

(***************************************************************************)
(* Pagination of the league activity and of the completed trades           *)
(* (fleaflicker.py 250-263, 386-395)                                       *)
(***************************************************************************)
MaxCursor == 2
MaxRequests == 5

\* The cursors a page may return, and the listing: the page it returns for
\* the first request (None) and for every cursor.  A page holds one item,
\* named after the request that returns it.
Cursors == 1..MaxCursor
Listings ==
    {[c \in {None} \cup Cursors |-> [items |-> <<c>>, resultOffsetNext |-> nx[c]]] :
        nx \in [{None} \cup Cursors -> {None} \cup Cursors]}

\* `if not result_offset: break` when the loop stops after its first page.
Breaks_AfterFirstPage(page) == TRUE

\* if not result_offset: break (260-261, 394-395)
Breaks(page) == ~Truthy(page.resultOffsetNext)

InitPaging ==
    /\ pc \in {"activity_pages", "trades_pages"}
    /\ week_for_report = NumRegularSeasonWeeks
    /\ MedianIdle
    /\ AwardsIdle
    /\ TxIdle
    /\ ScrapeIdle
    /\ CacheIdle
    /\ ZIdle
    /\ feed = <<>>
    /\ result_offset = None
    /\ fails = <<>>
    /\ team_events = <<>>
    /\ pages \in Listings
    /\ activity_items = <<>>
    /\ trade_items = <<>>
    /\ urls = <<>>
    /\ LastIdle

\* One iteration of the loop over the pages of the league activity (255-261).
FetchActivityPage ==
    /\ pc = "activity_pages"
    /\ Len(urls) < MaxRequests
    /\ urls' = Append(urls, result_offset)
    /\ activity_items' = activity_items \o pages[result_offset].items
    /\ result_offset' = pages[result_offset].resultOffsetNext
    /\ pc' = IF Breaks(pages[result_offset]) THEN "paged" ELSE pc
    /\ UNCHANGED <<pages, trade_items, feed, fails, team_events, lastVars>>
    /\ UNCHANGED <<week_for_report, wk, matchups_by_week, median_score_by_week,
                   league_median_records_by_team, teams_by_week, current_median_standings>>
    /\ UNCHANGED awardVars
    /\ UNCHANGED txVars
    /\ UNCHANGED scrapeVars
    /\ UNCHANGED cacheVars
    /\ UNCHANGED zVars

\* One iteration of the loop over the pages of the completed trades (389-395).
FetchTradesPage ==
    /\ pc = "trades_pages"
    /\ Len(urls) < MaxRequests
    /\ urls' = Append(urls, result_offset)
    /\ trade_items' = trade_items \o pages[result_offset].items
    /\ result_offset' = pages[result_offset].resultOffsetNext
    /\ pc' = IF Breaks(pages[result_offset]) THEN "paged" ELSE pc
    /\ UNCHANGED <<pages, activity_items, feed, fails, team_events, lastVars>>
    /\ UNCHANGED <<week_for_report, wk, matchups_by_week, median_score_by_week,
                   league_median_records_by_team, teams_by_week, current_median_standings>>
    /\ UNCHANGED awardVars
    /\ UNCHANGED txVars
    /\ UNCHANGED scrapeVars
    /\ UNCHANGED cacheVars
    /\ UNCHANGED zVars

NextPaging == FetchActivityPage \/ FetchTradesPage

SpecPaging == InitPaging /\ [][NextPaging]_vars

\* A request that is due is made.
SpecPagingFair ==
    SpecPaging /\ WF_vars(FetchActivityPage) /\ WF_vars(FetchTradesPage)

\* The cursor chain of the listing from cursor c ends within n pages.
RECURSIVE EndsWithin(_, _)
EndsWithin(c, n) ==
    /\ n > 0
    /\ (pages[c].resultOffsetNext = None \/ EndsWithin(pages[c].resultOffsetNext, n - 1))
FiniteChain == EndsWithin(None, MaxCursor + 1)

\* The items of the pages requested, in the order of the requests.
RECURSIVE ItemsOf(_, _)
ItemsOf(q, i) == IF i > Len(q) THEN <<>> ELSE pages[q[i]].items \o ItemsOf(q, i + 1)

\* Every request but the first uses the cursor of the page before it, the
\* items of every page fetched are collected, and the loop is left exactly
\* when the last page fetched returned no cursor.
InCursorOrder ==
    /\ urls # <<>> => urls[1] = None
    /\ \A i \in 1..(Len(urls) - 1) : urls[i + 1] = pages[urls[i]].resultOffsetNext
    /\ activity_items \o trade_items = ItemsOf(urls, 1)
    /\ pc = "paged" <=> (urls # <<>> /\ pages[urls[Len(urls)]].resultOffsetNext = None)

C22_WitnessCycle ==
    /\ pc # "paged"
    /\ ~FiniteChain
    /\ Len(urls) = MaxRequests


(***************************************************************************)
(* The free-agent fetch of one week: _fetch_free_agents_for_week (935).    *)
(***************************************************************************)

\* page_size (985).
page_size == 30

\* The requests the fetch makes at most, the broad listing included.
MaxFARequests == 5

FAIds == 1..2

\* A player of a listing: the id of its pro player (None when it has none),
\* whether a team owns it, and whether mapping it raises (points that are no
\* number, an entry that is no object).
ListedPlayers == [id : {None} \cup FAIds, owned : BOOLEAN, malformed : BOOLEAN]

\* What the platform answers to one request: the request raises after its
\* retries, the body is not JSON, or it is a page of players with the offset
\* of the next page (None when absent, NotANumber when int() rejects it).
FAResponses ==
    {[kind |-> "raises"], [kind |-> "not_json"]}
      \cup [kind : {"json"},
            players : {<<>>} \cup {<<p>> : p \in ListedPlayers}
                             \cup {<<p, q>> : p \in [id : FAIds, owned : {FALSE}, malformed : {FALSE}],
                                              q \in [id : FAIds, owned : {FALSE}, malformed : BOOLEAN]},
            result_offset_next : {None, NotANumber, page_size}]

\* The files week_<w>/free_agents.json the fetch can find: none, one that
\* does not load, or the mapping an earlier run saved.
FACacheFiles == {Missing, Unreadable} \cup {[file |-> "list", ids |-> ids] : ids \in SUBSET FAIds}

\* The request the loop is about to make (1018-1027).
Strategy(camel, fallback) ==
    IF fallback THEN "fallback" ELSE IF camel THEN "camelCase" ELSE "snake_case"

\* How a request ended, as the attempts record it.
Outcome(resp) ==
    IF resp.kind # "json" THEN resp.kind
    ELSE IF resp.players = <<>> THEN "empty"
    ELSE "players"

\* Lines 1044-1064, should a fallback request that raises start over with the
\* snake_case listing.
OnRequestFailure_StartOver(camel, fallback) ==
    IF ~fallback /\ ~camel THEN [camel |-> TRUE, fallback |-> FALSE, break |-> FALSE]
    ELSE IF ~fallback /\ camel THEN [camel |-> camel, fallback |-> TRUE, break |-> FALSE]
    ELSE [camel |-> FALSE, fallback |-> FALSE, break |-> FALSE]

\* Lines 1044-1064: what a request that raises does to the two flags, and
\* whether it ends the loop.
OnRequestFailure(camel, fallback) ==
    IF ~fallback /\ ~camel THEN [camel |-> TRUE, fallback |-> FALSE, break |-> FALSE]
    ELSE IF ~fallback /\ camel THEN [camel |-> camel, fallback |-> TRUE, break |-> FALSE]
    ELSE [camel |-> camel, fallback |-> fallback, break |-> TRUE]

\* Lines 1101-1117: the same for a page without players.
OnNoPlayers(camel, fallback, offset) ==
    IF ~fallback /\ ~camel /\ offset = 0 THEN [camel |-> TRUE, fallback |-> FALSE, break |-> FALSE]
    ELSE IF ~fallback /\ camel /\ offset = 0 THEN [camel |-> camel, fallback |-> TRUE, break |-> FALSE]
    ELSE [camel |-> camel, fallback |-> fallback, break |-> TRUE]

\* The players of a page that are mapped before one raises.
RECURSIVE MappedBefore(_)
MappedBefore(ps) ==
    IF ps = <<>> \/ Head(ps).malformed THEN <<>>
    ELSE <<Head(ps)>> \o MappedBefore(Tail(ps))

Raises(ps) == \E i \in 1..Len(ps) : ps[i].malformed

\* Lines 1167-1169: the ids the loop over a page stores.
StoredIds(ps) == {ps[i].id : i \in {j \in 1..Len(ps) : ps[j].id # None}}

\* Lines 1205-1207, 1246-1248: the ids the broad listing stores.
UnownedIds(ps) == {ps[i].id : i \in {j \in 1..Len(ps) : ~ps[j].owned /\ ps[j].id # None}}

\* Lines 1171-1184: the offset after a page, None when the loop ends.
NextOffset(resp, offset) ==
    IF resp.result_offset_next # None
    THEN (IF resp.result_offset_next = NotANumber THEN None ELSE resp.result_offset_next)
    ELSE IF Len(resp.players) < page_size THEN None ELSE offset + page_size

Attempt(strategy, offset, resp) ==
    [strategy |-> strategy, result_offset |-> offset, outcome |-> Outcome(resp)]

InitFA ==
    /\ pc = "fa_cache"
    /\ week_for_report = NumRegularSeasonWeeks
    /\ MedianIdle
    /\ AwardsIdle
    /\ TxIdle
    /\ ScrapeIdle
    /\ offline = FALSE
    /\ save_data \in BOOLEAN
    /\ cache = <<>>
    /\ requests = 0
    /\ ZIdle
    /\ FeedIdle
    /\ PagingIdle
    /\ fa_cache \in FACacheFiles
    /\ use_camelcase_params = FALSE
    /\ using_fallback = FALSE
    /\ total_found = 0
    /\ free_agents = {}
    /\ attempts = <<>>
    /\ RosterIdle
    /\ RestIdle

FAOthersUnchanged ==
    /\ UNCHANGED rosterVars
    /\ UNCHANGED restVars
    /\ UNCHANGED <<week_for_report, wk, matchups_by_week, median_score_by_week,
                   league_median_records_by_team, teams_by_week, current_median_standings>>
    /\ UNCHANGED awardVars
    /\ UNCHANGED txVars
    /\ UNCHANGED scrapeVars
    /\ UNCHANGED <<offline, save_data, cache, requests>>
    /\ UNCHANGED zVars
    /\ UNCHANGED <<feed, fails, team_events>>
    /\ UNCHANGED pagingVars

\* Lines 941-989: the cached mapping is returned when the file loads; else
\* the loop over the requests starts.
ReadFACache ==
    /\ pc = "fa_cache"
    /\ IF fa_cache.file = "list"
       THEN /\ free_agents' = fa_cache.ids
            /\ pc' = "fa_done"
            /\ UNCHANGED result_offset
       ELSE /\ result_offset' = 0
            /\ pc' = "fa_loop"
            /\ UNCHANGED free_agents
    /\ UNCHANGED <<fa_cache, use_camelcase_params, using_fallback, total_found, attempts>>
    /\ FAOthersUnchanged

\* One iteration of the loop over the requests (990-1184).
RequestFreeAgents ==
    /\ pc = "fa_loop"
    /\ Len(attempts) < MaxFARequests - 1
    /\ \E resp \in FAResponses :
         LET after == IF resp.kind = "raises"
                      THEN OnRequestFailure(use_camelcase_params, using_fallback)
                      ELSE IF resp.kind = "not_json"
                      THEN [camel |-> use_camelcase_params, fallback |-> using_fallback,
                            break |-> TRUE]
                      ELSE IF resp.players = <<>>
                      THEN OnNoPlayers(use_camelcase_params, using_fallback, result_offset)
                      ELSE [camel |-> use_camelcase_params, fallback |-> using_fallback,
                            break |-> NextOffset(resp, result_offset) = None]
             mapped == IF resp.kind = "json" THEN MappedBefore(resp.players) ELSE <<>>
             raised == resp.kind = "json" /\ Raises(resp.players)
         IN  /\ attempts' = Append(attempts,
                                   Attempt(Strategy(use_camelcase_params, using_fallback),
                                           result_offset, resp))
             /\ use_camelcase_params' = after.camel
             /\ using_fallback' = after.fallback
             /\ free_agents' = free_agents \cup StoredIds(mapped)
             /\ total_found' = total_found + Cardinality({i \in 1..Len(mapped) : mapped[i].id # None})
             /\ result_offset' = IF resp.kind = "json" /\ resp.players # <<>> /\ ~raised /\ ~after.break
                                 THEN NextOffset(resp, result_offset)
                                 ELSE result_offset
             /\ pc' = IF raised THEN "fa_raised"
                      ELSE IF after.break THEN "fa_probe"
                      ELSE pc
    /\ UNCHANGED fa_cache
    /\ FAOthersUnchanged

\* Lines 1186-1290: the broad listing when nothing was found, the write of the
\* cache file, and the return.
ProbeAndReturn ==
    /\ pc = "fa_probe"
    /\ \E resp \in FAResponses :
         LET probed == total_found = 0
             added == IF probed /\ resp.kind = "json"
                      THEN UnownedIds(MappedBefore(resp.players))
                      ELSE {}
         IN  /\ attempts' = IF probed THEN Append(attempts, Attempt("broad", 0, resp))
                            ELSE attempts
             /\ free_agents' = free_agents \cup added
             /\ fa_cache' = IF free_agents' # {} /\ save_data
                            THEN [file |-> "list", ids |-> free_agents']
                            ELSE fa_cache
    /\ pc' = "fa_done"
    /\ UNCHANGED <<use_camelcase_params, using_fallback, total_found, result_offset>>
    /\ FAOthersUnchanged

NextFA == ReadFACache \/ RequestFreeAgents \/ ProbeAndReturn

SpecFA == InitFA /\ [][NextFA]_vars

StrategyRank(st) ==
    CASE st = "snake_case" -> 1
      [] st = "camelCase" -> 2
      [] st = "fallback" -> 3
      [] st = "broad" -> 4

\* The requests are made in the order of the strategies, none returning to an
\* earlier one.
InStrategyOrder ==
    \A i \in 1..Len(attempts) : \A j \in i..Len(attempts) :
        StrategyRank(attempts[i].strategy) <= StrategyRank(attempts[j].strategy)

\* The broad listing is requested once, last, and after no request that found
\* a free agent.
BroadOnlyWhenNoneFound ==
    \A i \in 1..Len(attempts) :
        attempts[i].strategy = "broad" => /\ i = Len(attempts)
                                          /\ total_found = 0

AllFailed ==
    /\ attempts # <<>>
    /\ \A i \in 1..Len(attempts) : attempts[i].outcome \in {"raises", "not_json", "empty"}

\* C23: the free-agent fetch of a week makes its requests in the order
\* snake_case listing, camelCase listing, fallback endpoint, broad listing,
\* never going back to an earlier strategy (so each switch happens once at
\* most); the broad listing is requested only when the earlier requests found
\* no free agent; and when every request failed, no error reaches the caller
\* and the mapping returned is empty.
C23_StrategiesInOrder ==
    /\ InStrategyOrder
    /\ BroadOnlyWhenNoneFound
    /\ AllFailed => /\ pc # "fa_raised"
                    /\ free_agents = {}

\* All four strategies were tried, each failing, and the fetch returned.
C23_Witness ==
    /\ pc = "fa_done"
    /\ AllFailed
    /\ Len(attempts) = 4
    /\ \A i \in 1..4 : StrategyRank(attempts[i].strategy) = i

\* A later page of the snake_case listing raised, the camelCase listing took
\* over at that offset, and no broad listing followed.
C23_WitnessLaterPage ==
    /\ pc = "fa_done"
    /\ Len(attempts) = 3
    /\ attempts[2].strategy = "snake_case" /\ attempts[2].outcome = "raises"
    /\ attempts[2].result_offset = page_size
    /\ attempts[3].strategy = "camelCase"
    /\ total_found > 0


(***************************************************************************)
(* The keys and the buckets of transactions_by_week                        *)
(***************************************************************************)
BucketKinds == {"adds", "claims", "drops", "trades"}

Extends(old, new) == Len(old) <= Len(new) /\ SubSeq(new, 1, Len(old)) = old

\* The weeks the iteration just made resolved its item to: week_ord (305-346),
\* the week_guess of each receiving team (402-459), wk_ord (535-565).
ResolvedWeeks ==
    IF pc = "activity" THEN {week_ord}
    ELSE IF pc = "trades" THEN {team_received[i].week_guess : i \in 1..Len(team_received)}
    ELSE IF pc = "teamtx" THEN {wk_ord}
    ELSE {}

KeysAreTheWeeks == DOMAIN transactions_by_week = Weeks

\* A step only appends, and only to buckets of weeks its item resolved to.
AppendsToResolvedWeek ==
    \/ transactions_by_week' = transactions_by_week
    \/ \A w \in Weeks :
         \/ transactions_by_week'[w] = transactions_by_week[w]
         \/ /\ \A k \in BucketKinds :
                   Extends(transactions_by_week[w][k], transactions_by_week'[w][k])
            /\ w \in ResolvedWeeks'

\* C24: the keys of transactions_by_week are the weeks of
\* [start_week, num_regular_season_weeks] from its initialization on; no step
\* of the activity, trades or per-team normalization adds or removes a key;
\* and every event recorded is appended to the bucket of the week, inside that
\* range, its item resolved to.
C24_KeysAndBuckets ==
    [][KeysAreTheWeeks /\ KeysAreTheWeeks' /\ AppendsToResolvedWeek]_vars

\* A per-team item resolved to a week after the first was recorded there.
C24_Witness ==
    /\ pc = "teamtx"
    /\ it # <<>>
    /\ wk_ord > start_week
    /\ Recorded(it[1], wk_ord)
    /\ transactions_by_week[wk_ord] # NoEvents
    /\ transactions_by_week[start_week] = NoEvents

\* The same for the offline hydration of a team and for the paged feed.
C24_KeysAndBucketsHydrated ==
    [][/\ KeysAreTheWeeks /\ KeysAreTheWeeks'
       /\ \A w \in Weeks : \A k \in BucketKinds :
            Extends(transactions_by_week[w][k], transactions_by_week'[w][k])]_vars


(***************************************************************************)
(* The cumulative median record on the snapshots of the weeks mapped       *)
(***************************************************************************)
\* The team had its cumulative record created in a week mapped before w
\* (763-765 create it in the first week the team is mapped).
CreatedBefore(w, t) ==
    \E v \in DOMAIN teams_by_week : v < w /\ t \in DOMAIN teams_by_week[v]

\* C25: once the cumulative median record of a team exists, the Team snapshot
\* of the team in every week mapped afterwards has that record attached,
\* weeks without median included.
C25_RecordOnEverySubsequentSnapshot ==
    \A w \in DOMAIN teams_by_week : \A t \in DOMAIN teams_by_week[w] :
        CreatedBefore(w, t) => teams_by_week[w][t].has_median_record

\* The same for the weeks that have a median, and for the report week once
\* the standings are ranked.
C25_RecordOnSnapshotsWithMedian ==
    \A w \in DOMAIN teams_by_week : \A t \in DOMAIN teams_by_week[w] :
        (CreatedBefore(w, t)
           /\ \/ Get(median_score_by_week, w) # None
              \/ pc = "populated" /\ w = week_for_report)
          => teams_by_week[w][t].has_median_record


(***************************************************************************)
(* The weeks of teams_by_week the roster mapping and the standings read    *)
(* (fleaflicker.py 240-248, 802-910).                                      *)
(***************************************************************************)
\* The latest week a report is asked for: the first week after the regular
\* season.
MaxReportWeek == NumRegularSeasonWeeks + 1

InitRosters ==
    /\ pc = "scoreboard"
    /\ wk = start_week
    /\ week_for_report \in start_week..MaxReportWeek
    /\ matchups_by_week = <<>>
    /\ median_score_by_week = <<>>
    /\ league_median_records_by_team = <<>>
    /\ teams_by_week = <<>>
    /\ current_median_standings = <<>>
    /\ AwardsIdle
    /\ TxIdle
    /\ AuxIdle

\* A key of a mapping of players: the id and the Python type it has as a key,
\* an int and the str of its digits being different keys.
IntKey(n) == [type |-> "int", id |-> n]
StrKey(n) == [type |-> "str", id |-> n]

\* str(key)
Str(key) == StrKey(key.id)

\* The ids of pro players the platform knows.
PlatformIds == 1..3

\* players_by_week[week] after the rosters of a week are mapped, as its keys:
\* base_player.player_id = flea_pro_player.get("id") (818), the integer of
\* the JSON payload, keys the mapping (897).
Rosters == {{IntKey(1)}, {IntKey(1), IntKey(2)}}

\* self.league.teams_by_week.get(str(week)): <<>> standing for None.
TeamsOfWeek(w) == IF w \in DOMAIN teams_by_week THEN <<teams_by_week[w]>> ELSE <<>>

\* One iteration of the loop over rosters_by_week (802-897), whose weeks are
\* those of range(start_week, week_for_report + 1) (240): every roster of the
\* week is attached to league_team = teams_by_week.get(str(week)).get(team_id),
\* which raises when the week has no entry.
MapRosters ==
    /\ pc = "mapped"
    /\ roster_week <= week_for_report
    /\ IF TeamsOfWeek(roster_week) = <<>>
         THEN /\ pc' = "raised"
              /\ UNCHANGED <<players_by_week, roster_week>>
         ELSE /\ \E roster \in Rosters :
                    players_by_week' = Put(players_by_week, roster_week, roster)
              /\ roster_week' = roster_week + 1
              /\ pc' = pc
    /\ UNCHANGED current_standings
    /\ UNCHANGED medVarsButPc
    /\ UNCHANGED awardVars
    /\ UNCHANGED txVars
    /\ UNCHANGED <<scrapeVars, cacheVars, zVars, feedVars, pagingVars, faVars, restVars>>

\* Lines 899-910: the free agents of every week are fetched (no error leaves
\* that loop), then the teams of the report week are sorted by the rank of
\* their record; .values() raises when the report week has no entry.
SortStandings ==
    /\ pc = "mapped"
    /\ roster_week > week_for_report
    /\ IF TeamsOfWeek(week_for_report) = <<>>
         THEN /\ pc' = "raised"
              /\ UNCHANGED current_standings
         ELSE /\ current_standings' =
                    SelectSeq(SidesOf(Games),
                              LAMBDA t : t \in DOMAIN TeamsOfWeek(week_for_report)[1])
              /\ pc' = "standings"
    /\ UNCHANGED <<players_by_week, roster_week>>
    /\ UNCHANGED medVarsButPc
    /\ UNCHANGED awardVars
    /\ UNCHANGED txVars
    /\ UNCHANGED <<scrapeVars, cacheVars, zVars, feedVars, pagingVars, faVars, restVars>>

NextRosters == FetchScoreboard \/ ComputeMedian \/ MapWeek \/ MapRosters \/ SortStandings

SpecRosters == InitRosters /\ [][NextRosters]_vars

\* C26: map_data_to_base gets past the roster mapping and current_standings
\* with teams_by_week holding an entry for every week of
\* [start_week, week_for_report], whatever week_for_report >= start_week is,
\* a week_for_report after num_regular_season_weeks included.
C26_EveryReportedWeekIsMapped ==
    /\ pc # "raised"
    /\ pc \in {"mapped", "standings"} =>
          \A w \in start_week..week_for_report : w \in DOMAIN teams_by_week

\* The same for a report week inside the regular season.
C26_EveryReportedWeekIsMappedInSeason ==
    week_for_report <= NumRegularSeasonWeeks =>
        /\ pc # "raised"
        /\ pc \in {"mapped", "standings"} =>
              \A w \in start_week..week_for_report : w \in DOMAIN teams_by_week

C26_InSeasonReached ==
    /\ pc = "standings"
    /\ week_for_report = NumRegularSeasonWeeks
    /\ DOMAIN players_by_week = Weeks


(***************************************************************************)
(* The score compared with the median and the score behind the median      *)
(***************************************************************************)
\* The weeks mapped so far that have a median: the weeks whose teams are
\* credited a win, a loss or a tie (767-779).
CreditedWeeks == {w \in DOMAIN teams_by_week : Get(median_score_by_week, w) # None}

\* C27: in every week with a median, a team credited a win, loss or tie had
\* its score collected for the median of the week, and the points compared
\* with the median are the value its side contributed to it, whichever field
\* of the payload held the score.
C27_ComparedScoreIsCollectedScore ==
    \A w \in CreditedWeeks : \A t \in DOMAIN teams_by_week[w] :
        /\ ScoreVal(matchups_by_week[w][t]) # None
        /\ teams_by_week[w][t].points = ScoreVal(matchups_by_week[w][t])

\* The same for the sides whose score.value is a number other than 0.
C27_ComparedScoreIsCollectedScoreValue ==
    \A w \in CreditedWeeks : \A t \in DOMAIN teams_by_week[w] :
        Truthy(matchups_by_week[w][t].score_value) =>
            /\ ScoreVal(matchups_by_week[w][t]) # None
            /\ teams_by_week[w][t].points = ScoreVal(matchups_by_week[w][t])

\* The same when no side at all carries score.value 0, the case of C1.
C27_ComparedScoreIsCollectedNoZero ==
    \A w \in CreditedWeeks :
        (\A t \in DOMAIN teams_by_week[w] : matchups_by_week[w][t].score_value # 0) =>
            \A t \in DOMAIN teams_by_week[w] :
                /\ ScoreVal(matchups_by_week[w][t]) # None
                /\ teams_by_week[w][t].points = ScoreVal(matchups_by_week[w][t])


(***************************************************************************)
(* Best of the Rest (report/data.py 165-215)                               *)
(***************************************************************************)
\* free_agents_by_week[week], as its keys: str(player_id) in the fetch
\* (fleaflicker.py 1168, 1247) and in the cache (967).
FreeAgentKeys == {StrKey(n) : n \in PlatformIds}

\* Line 174: the keys of players_by_week[week_counter], as they are.
rostered_ids(pbw, w) == IF w \in DOMAIN pbw THEN pbw[w] ELSE {}

\* Line 175: the free agents whose str(pid) is no element of rostered_ids.
Filtered(fas, rostered) == {pid \in fas : Str(pid) \notin rostered}

InitRest ==
    /\ pc = "best_of_rest"
    /\ week_for_report = NumRegularSeasonWeeks
    /\ MedianIdle
    /\ AwardsIdle
    /\ TxIdle
    /\ ScrapeIdle
    /\ CacheIdle
    /\ ZIdle
    /\ FeedIdle
    /\ PagingIdle
    /\ FAIdle
    /\ roster_week = week_for_report + 1
    /\ players_by_week \in [Weeks -> SUBSET {IntKey(n) : n \in PlatformIds}]
    /\ current_standings = <<>>
    /\ free_agents_by_week \in [Weeks -> SUBSET FreeAgentKeys]
    /\ best_of_rest_bool \in BOOLEAN
    /\ filtered_fas = {}

\* Lines 165-215 for week_counter: the free agents of the week without the
\* rostered players are the candidates of the lineup; none left raises, and
\* the section is unavailable.
BuildBestOfRest ==
    /\ pc = "best_of_rest"
    /\ week_counter <= week_for_report
    /\ LET fas == IF week_counter \in DOMAIN free_agents_by_week
                    THEN free_agents_by_week[week_counter] ELSE {}
           kept == Filtered(fas, rostered_ids(players_by_week, week_counter))
       IN  IF fas # {} /\ best_of_rest_bool
             THEN filtered_fas' = kept
             ELSE filtered_fas' = {}
    /\ week_counter' = week_counter + 1
    /\ UNCHANGED <<pc, free_agents_by_week, best_of_rest_bool>>
    /\ UNCHANGED medVarsButPc
    /\ UNCHANGED <<players, events, fa_candidates, drop_candidates, drop_idx, awards>>
    /\ UNCHANGED txVars
    /\ UNCHANGED <<scrapeVars, cacheVars, zVars, feedVars, pagingVars, faVars, rosterVars>>

NextRest == BuildBestOfRest

SpecRest == InitRest /\ [][NextRest]_vars

\* The week filtered_fas was built for.
BuiltWeek == week_counter - 1

\* C28: the candidates of Best of the Rest hold no player that is on a roster
\* of the week, the rosters being keyed by the platform's integer ids and the
\* free agents by the string of their id.
C28_NoRosteredCandidate ==
    week_counter > start_week =>
        \A pid \in filtered_fas :
            \A key \in rostered_ids(players_by_week, BuiltWeek) : key.id # pid.id

\* What the filter does remove: nothing.
C28_FilterKeepsEveryFreeAgent ==
    (week_counter > start_week /\ best_of_rest_bool) =>
        filtered_fas = free_agents_by_week[BuiltWeek]


(***************************************************************************)
(* Awards of a report week whose events hold one of them twice             *)
(***************************************************************************)
\* The loop over the drop events (400-534) from the candidates dc on.
RECURSIVE DropLoop(_, _, _, _, _)
DropLoop(a, dc, drops, candidates, trades) ==
    IF drops = <<>> THEN a
    ELSE LET ev == Head(drops)
             appended == Append(dc, Candidate(ev.team_id, ev.player_id,
                                              DropPoints(ev.player_id)))
             drops_asc == StableSort(appended, "pts", FALSE)
         IN  DropLoop(AwardsAfterBodyOf(a, drops_asc, candidates, trades),
                      StableSort(drops_asc, "pts", TRUE), Tail(drops), candidates, trades)

\* The awards the loop over the drop events of evts leaves, from a0 on.
AwardsFrom(a0, evts) ==
    DropLoop(a0, <<>>, evts.drops,
             FaCandidates(evts.adds \o evts.claims, evts.trades), evts.trades)

\* The awards of the report week (311-534) for the events evts.
AwardsOf(evts) == AwardsFrom([NoAwards EXCEPT !.worst_startsit = WorstStartSit], evts)

\* The report week of a league whose week has at most one trade, in which a
\* team received a player, and whose player 4, who is part of no transaction,
\* scored the higher of his two scores.
InitDuplicates ==
    /\ InitAwards
    /\ week_counter = week_for_report
    /\ Len(events.trades) <= 1
    /\ \A i \in 1..Len(events.trades) : events.trades[i].players_sent # <<>>
    /\ players[4].points = 4

NextDuplicates == AwardsPrologue \/ DropIteration

SpecDuplicates == InitDuplicates /\ [][NextDuplicates]_vars

\* The events with the i-th event of a list recorded once more, behind the
\* events the list holds.
WithDuplicate(evts, kind, i) == [evts EXCEPT ![kind] = Append(@, @[i])]

\* The positions of a list at which an event is recorded for the first time.
FirstRecordings(q) == {i \in 1..Len(q) : \A j \in 1..(i - 1) : q[j] # q[i]}

SamePickupAndDropAwards(a, b) ==
    /\ a.best_fa_pickups = b.best_fa_pickups
    /\ a.worst_fa_pickups = b.worst_fa_pickups
    /\ a.best_fa_pickups_hm = b.best_fa_pickups_hm
    /\ a.worst_fa_pickups_hm = b.worst_fa_pickups_hm
    /\ a.best_drops = b.best_drops
    /\ a.worst_drops = b.worst_drops

AwardsDone == pc = "reported" /\ IsReportWeek

\* C29: the awards of the report week are those its events determine, and
\* recording any add, claim or drop event of the week a second time changes
\* none of the best and worst pickup rows, the two honorable mentions and the
\* best and worst drop rows.
C29_DuplicateEventsKeepAwards ==
    AwardsDone =>
        /\ awards = AwardsOf(events)
        /\ \A kind \in {"adds", "claims", "drops"} :
             \A i \in FirstRecordings(events[kind]) :
                SamePickupAndDropAwards(AwardsFrom(NoAwards, WithDuplicate(events, kind, i)),
                                        awards)

\* The report week recorded an add twice, next to a claim and a drop, and
\* its awards are those of the week with the add recorded once.
C29_Witness ==
    /\ AwardsDone
    /\ Len(events.adds) = 2
    /\ events.adds[1] = events.adds[2]
    /\ events.claims # <<>>
    /\ events.drops # <<>>
    /\ awards.best_fa_pickups # <<>>
    /\ awards.best_fa_pickups_hm # <<>>
    /\ SamePickupAndDropAwards(awards,
                               AwardsFrom(NoAwards, [events EXCEPT !.adds = <<events.adds[1]>>]))


(***************************************************************************)
(* A failure inside the per-team transactions loop                         *)
(***************************************************************************)
FeedFailed == logged = <<"Per-team transaction fetch failed">>

\* The teams the loop visits after team t.
TeamsAfter(t) == {u \in TxTeams : u > t}

EventsOfTeamIn(tbw, t) ==
    {<<w, k, i>> \in Weeks \X {"adds", "claims", "drops"} \X (1..(2 * MaxPages * Cardinality(TxTeams))) :
        i <= Len(tbw[w][k]) /\ tbw[w][k][i].team_id = t}

CacheWritten(t) == \E w \in Weeks : cache[t][w] # Missing

\* The team whose request raises; the last team when none does.
FailingTeam == IF fails = <<>> THEN Cardinality(TxTeams) ELSE fails[1]

\* C30: a request of a team's feed that raises does not end populate, which
\* goes on behind the per-team loop; the events recorded until then stay
\* recorded; and from then on no event of a later team is recorded and no
\* cache file of the failing team or of a later one is written.
C30_FailureEndsThePerTeamPass ==
    /\ [][FeedFailed' /\ ~FeedFailed =>
            /\ pc' = "normalized"
            /\ transactions_by_week' = transactions_by_week]_vars
    /\ [](FeedFailed =>
            [](/\ pc = "normalized"
               /\ \A u \in {FailingTeam} \cup TeamsAfter(FailingTeam) : ~CacheWritten(u)
               /\ \A u \in TeamsAfter(FailingTeam) :
                     EventsOfTeamIn(transactions_by_week, u) = {}))

\* The second page of the first team raised after its first page recorded an
\* event, with caching on; the second team, whose feed holds an item of a week
\* of the season, is not queried.
C30_Witness ==
    /\ FeedFailed
    /\ pc = "normalized"
    /\ fails = <<1, 2>>
    /\ save_data
    /\ EventsOfTeamIn(transactions_by_week, 1) # {}
    /\ feed[2] # <<>>
    /\ Recorded(feed[2][1][1], wk_ord_of(feed[2][1][1]))
    /\ requests = 2

=============================================================================
